---------------------------- MODULE Spec2Model ----------------------------
(***************************************************************************)
(* Orchestration core of expo-games: the status broadcaster                *)
(* (services/status_broadcaster.py), the rock-paper-scissors game service  *)
(* with its worker thread (services/rps_game_service.py) and the inbound   *)
(* branches of the /ws/rps stream handler (routers/websockets.py).         *)
(*                                                                         *)
(* Threads: the event-loop thread runs the HTTP/WebSocket handlers and the *)
(* scheduled broadcast coroutines; every successful start_game spawns one  *)
(* game worker thread.  A step of the model is one statement group of one  *)
(* thread between two accesses another thread can observe.                 *)
(***************************************************************************)
EXTENDS Integers, Sequences, FiniteSets, TLC

---------------------------------------------------------------------------
(* Bounds of the model (not program constants). *)

\* asyncio.Queue(maxsize=32) in register(); the capacity is scaled down
MaxQueueSize == 2
\* number of queues register() may create in one run
MaxQueues == 2
\* number of messages the publishers of the broadcaster publish in one run
MaxPublish == 3
\* scheduled broadcast coroutines waiting for the loop while game threads run
MaxTasks == 1
\* broadcasts the publishers may have scheduled and not yet delivered
MaxPending == 2
\* worker threads start_game may spawn in one run
MaxThreads == 1
\* games started one after the other in the specification of restarts
MaxGames == 2
\* rounds one run may play (a drawn round can repeat for ever)
MaxRounds == 2
\* largest target_score the clients ask for
MaxTarget == 1
\* calls of the judging function in one run of its harness
MaxJudged == 2
\* detection threads one detection service may spawn in one run
MaxDetThreads == 1
\* sessions of a detection service started one after the other in the
\* specification of its restarts
MaxSessions == 2
\* frames a detection loop counts into the session statistics
MaxDetections == 1
\* client messages that wait for receive_json of a websocket handler
MaxInbox == 2

(* Program constants. *)
round_countdown_time == 3
gesture_capture_time == 2
result_display_time == 2
finish_display_time == 3
join_timeout == 2
countdown_tick == 1

---------------------------------------------------------------------------
VARIABLES
    \* ---- StatusBroadcaster
    loop_set,        \* self._loop is not None
    connections,     \* self._connections: the registered queues
    queues,          \* contents of every queue created so far
    tasks,           \* broadcast coroutines scheduled on the loop, FIFO
    npublished,      \* messages the publishers have published
    last_broadcast,  \* the last broadcast() that ran: its message and its list `dead`
    \* ---- RPSGameService
    game_state, game_mode, players, ai_player, game_thread,
    target_score, current_round, round_history,
    \* ---- threads
    threads,         \* per worker thread: pc and locals
    loop_pc,         \* the loop thread: "idle", or "join" inside stop_game
    join_credit,     \* per worker: seconds it may still sleep before the join times out
    \* ---- environment and observations
    player_gesture,  \* rps_game_service.player_gesture, the slot /ws/rps writes
    http_result,     \* the "status" of what the last start_game / stop_game call returned
    ws_reply,        \* the last message the /ws/rps handler sent for an inbound message
    last_pub,        \* the last message handed to broadcast_threadsafe
    \* ---- harness of the pure judging function
    jg1, jg2,        \* the gestures handed to _determine_winner
    jresult,         \* what it returned for them ("none": not called yet)
    jplayer,         \* an RPSPlayer that tallies the results
    \* ---- one websocket handler (routers/websockets.py)
    ws_path,         \* the endpoint it serves: "rps", "gesture" or "action"
    ws_state,        \* "none": not connected, "open": in its loop, "closed": returned
    ws_queue,        \* the queue register() gave it (0: none)
    ws_sends,        \* how many messages it sent for the last message it handled
    ws_fwd,          \* the last message it sent to the client for a broadcast event
    ws_inbox,        \* the types of the client messages that have arrived and that
                     \* receive_json has not returned, oldest first
    ws_handled,      \* per source, the parity of the number of its tasks the merge loop processed
    gesture_session_active,  \* the local of the /ws/drawing handler: it started a session
    \* ---- one detection service (hand gesture, action challenge or drawing)
    det_kind,        \* which service: "gesture", "action" or "drawing"
    hg_current,      \* current_gesture and current_confidence of the hand gesture service,
                     \* and when _result_callback stored them
    challenges,      \* self.current_challenge_set of the action service: per challenge
                     \* its threshold, progress (both in tenths) and completed
    current_challenge_index,  \* self.current_challenge_index, counted from 0
    det_available,   \* its recognizer adapter reports available
    is_detecting,    \* self.is_detecting / self.is_drawing
    camera,          \* self.camera: "None" or "capture", a cv2.VideoCapture object
    cam_open,        \* the capture device is held open (isOpened() of the capture)
    det_threads,     \* the detection threads created so far: pc and locals
    det_thread,      \* self.detection_thread (0: None)
    det_stats,       \* the session statistics (total_detections, score, strokes)
    det_reply,       \* the "status" of what the last start / stop call returned
    det_stopped,     \* 'stopped' events the last stop call of a client has published
    det_join         \* how the join of the last stop ended: "none", "joined", "timeout"

bvars == <<loop_set, connections, queues, tasks, npublished, last_broadcast>>
gvars == <<game_state, game_mode, players, ai_player, game_thread,
           target_score, current_round, round_history>>
tvars == <<threads, loop_pc, join_credit>>
ovars == <<player_gesture, http_result, ws_reply, last_pub>>
jvars == <<jg1, jg2, jresult, jplayer>>
wvars == <<ws_path, ws_inbox, ws_handled, gesture_session_active, ws_state, ws_queue, ws_sends, ws_fwd>>
cvars == <<challenges, current_challenge_index>>
dvars == <<det_kind, cvars, hg_current, det_available, is_detecting, camera, cam_open, det_threads, det_thread,
           det_stats, det_reply, det_stopped, det_join>>
vars == <<bvars, gvars, tvars, ovars, jvars, wvars, dvars>>

---------------------------------------------------------------------------
(* Enumerations *)

\* HandGestureType / RPSGesture
ROCK == "rock"
PAPER == "paper"
SCISSORS == "scissors"
UNKNOWN == "unknown"
None == "none"
HandGestureType == {ROCK, PAPER, SCISSORS, UNKNOWN}
Playable == {ROCK, PAPER, SCISSORS}

\* RPSRoundResult
WIN == "win"
LOSE == "lose"
DRAW == "draw"

\* RPSGameState
IDLE == "idle"
WAITING_FOR_PLAYERS == "waiting"
ROUND_COUNTDOWN == "countdown"
ROUND_GESTURE_CAPTURE == "capture"
ROUND_RESULT == "result"
GAME_FINISHED == "finished"
RPSGameState == {IDLE, WAITING_FOR_PLAYERS, ROUND_COUNTDOWN,
                 ROUND_GESTURE_CAPTURE, ROUND_RESULT, GAME_FINISHED}

\* RPSGameMode, RPSGameDifficulty
RPSGameMode == {"vs_ai", "vs_player", "tournament"}
RPSGameDifficulty == {"easy", "medium", "hard"}

\* confidences, in tenths
Confidences == {6, 7, 8}

Min(a, b) == IF a < b THEN a ELSE b

---------------------------------------------------------------------------
(* StatusBroadcaster *)

\* a BroadcastEvent: channel, stage and a small payload
Msg(channel, stage, data) == [channel |-> channel, stage |-> stage, data |-> data]

QueueIds == 1..Len(queues)

\* asyncio.Queue.full()
QueueFull(queue) == Len(queue) >= MaxQueueSize

\* an enqueue at the wrong end of the queue
put_nowait_front(queue, message) == <<message>> \o queue

\* asyncio.Queue.put_nowait on a queue with room: the message goes to the tail
put_nowait(queue, message) == Append(queue, message)

\* a broadcast that keeps full queues registered
dead_never(conns, qs) == {}

\* the queues broadcast() finds full and discards from self._connections
dead(conns, qs) == {q \in conns : QueueFull(qs[q])}

\* the body of the coroutine broadcast(message), run under self._lock
broadcast(message) ==
    /\ queues' = [q \in QueueIds |->
                    IF q \in connections /\ ~QueueFull(queues[q])
                    THEN put_nowait(queues[q], message)
                    ELSE queues[q]]
    /\ connections' = connections \ dead(connections, queues)
    /\ last_broadcast' = [message |-> message, dead |-> dead(connections, queues)]

\* an _ensure_loop that finds a loop whoever calls it
_ensure_loop_always(on_loop) == TRUE

\* _ensure_loop(): the stored loop, else the caller's running loop (which it stores)
_ensure_loop(on_loop) == loop_set \/ on_loop

\* broadcast_sync(message) / broadcast_threadsafe(message): schedules
\* broadcast(message) on the loop (create_task or run_coroutine_threadsafe),
\* or returns at once when no loop is known
broadcast_sync(message, on_loop) ==
    /\ loop_set' = _ensure_loop(on_loop)
    /\ tasks' = IF _ensure_loop(on_loop) THEN Append(tasks, message) ELSE tasks

\* the loop is not blocked inside a synchronous handler
LoopFree == loop_pc = "idle"

\* The loop is faster than the threads: while the loop is free, another thread
\* takes a step only if fewer than MaxTasks coroutines wait for the loop.
TasksRoom == ~LoopFree \/ Len(tasks) < MaxTasks

\* lifespan(): status_broadcaster.set_loop(loop)
SetLoop ==
    /\ LoopFree /\ ~loop_set
    /\ loop_set' = TRUE
    /\ UNCHANGED <<connections, queues, tasks, npublished, last_broadcast, gvars, tvars, ovars, jvars, wvars, dvars>>

\* register(): a new bounded queue joins the registered set
Register ==
    /\ LoopFree /\ Len(queues) < MaxQueues
    /\ queues' = Append(queues, <<>>)
    /\ connections' = connections \cup {Len(queues) + 1}
    /\ UNCHANGED <<loop_set, tasks, npublished, last_broadcast, gvars, tvars, ovars, jvars, wvars, dvars>>

\* an unregister that also empties the queue it is given
UnregisterClearing(q) ==
    /\ LoopFree
    /\ connections' = connections \ {q}
    /\ queues' = [p \in QueueIds |-> IF p = q THEN <<>> ELSE queues[p]]
    /\ UNCHANGED <<loop_set, tasks, npublished, last_broadcast, gvars, tvars, ovars, jvars, wvars, dvars>>

\* the queues a caller can hand to unregister: those register() returned, and
\* (0) a queue the broadcaster has never seen
UnregisterArgs == {0} \cup QueueIds

\* unregister(queue): discard, whether or not the queue is registered
Unregister(q) ==
    /\ LoopFree
    /\ connections' = connections \ {q}
    /\ UNCHANGED <<loop_set, queues, tasks, npublished, last_broadcast, gvars, tvars, ovars, jvars, wvars, dvars>>

\* two scheduled broadcast coroutines that interleave between subscribers:
\* the first queue gets them oldest first, the other queues newest first
RunBroadcastInterleaved ==
    /\ LoopFree /\ Len(tasks) >= 2
    /\ queues' = [q \in QueueIds |->
                    IF q \in connections /\ Len(queues[q]) + 2 <= MaxQueueSize
                    THEN IF q = 1 THEN queues[q] \o <<tasks[1], tasks[2]>>
                                  ELSE queues[q] \o <<tasks[2], tasks[1]>>
                    ELSE queues[q]]
    /\ connections' = connections
    /\ last_broadcast' = [message |-> tasks[2], dead |-> {}]
    /\ tasks' = Tail(Tail(tasks))
    /\ UNCHANGED <<loop_set, npublished, gvars, tvars, ovars, jvars, wvars, dvars>>

\* the loop runs the oldest scheduled broadcast coroutine
RunBroadcast ==
    /\ LoopFree /\ tasks # <<>>
    /\ broadcast(Head(tasks))
    /\ tasks' = Tail(tasks)
    /\ UNCHANGED <<loop_set, npublished, gvars, tvars, ovars, jvars, wvars, dvars>>

\* a subscriber takes the next message off its queue: queue.get()
QueueGet(q) ==
    /\ LoopFree /\ queues[q] # <<>>
    /\ queues' = [queues EXCEPT ![q] = Tail(@)]
    /\ UNCHANGED <<loop_set, connections, tasks, npublished, last_broadcast, gvars, tvars, ovars, jvars, wvars, dvars>>

\* the next message of the publishers, numbered and tagged with its origin
TestMessage(origin) == Msg("test", origin, npublished + 1)

\* a coroutine on the loop awaits broadcast(message) itself
PublishDirect ==
    /\ LoopFree /\ npublished < MaxPublish
    /\ broadcast(TestMessage("direct"))
    /\ npublished' = npublished + 1
    /\ UNCHANGED <<loop_set, tasks, gvars, tvars, ovars, jvars, wvars, dvars>>

\* broadcast_sync called on the loop thread (on_loop) or from another thread
PublishSync(on_loop) ==
    /\ on_loop => LoopFree
    /\ npublished < MaxPublish /\ Len(tasks) < MaxPending
    /\ broadcast_sync(TestMessage(IF on_loop THEN "loop" ELSE "thread"), on_loop)
    /\ npublished' = npublished + 1
    /\ UNCHANGED <<connections, queues, last_broadcast, gvars, tvars, ovars, jvars, wvars, dvars>>


---------------------------------------------------------------------------
(* RPSGameService: data *)

\* RPSPlayer.__init__
RPSPlayer(is_ai) ==
    [is_ai |-> is_ai, score |-> 0, current_gesture |-> None,
     gesture_ready |-> FALSE, wins |-> 0, losses |-> 0, draws |-> 0]

\* a reset_round that keeps the gesture of the round before
reset_round_keeping(p) == p

\* RPSPlayer.reset_round
reset_round(p) == [p EXCEPT !.current_gesture = None, !.gesture_ready = FALSE]

\* RPSPlayer.add_result
add_result(p, result) ==
    IF result = WIN THEN [p EXCEPT !.wins = @ + 1, !.score = @ + 1]
    ELSE IF result = LOSE THEN [p EXCEPT !.losses = @ + 1]
    ELSE IF result = DRAW THEN [p EXCEPT !.draws = @ + 1]
    ELSE p

\* a table in which paper loses to rock
winning_combinations_wrong == {<<ROCK, SCISSORS>>, <<ROCK, PAPER>>, <<SCISSORS, PAPER>>}

winning_combinations == {<<ROCK, SCISSORS>>, <<PAPER, ROCK>>, <<SCISSORS, PAPER>>}

\* RPSGameService._determine_winner
_determine_winner(gesture1, gesture2) ==
    IF gesture1 = gesture2 THEN DRAW
    ELSE IF <<gesture1, gesture2>> \in winning_combinations THEN WIN
    ELSE LOSE

\* a winner check that never finds a winner
_check_game_winner_never == FALSE

\* RPSGameService._check_game_winner
_check_game_winner == \E pid \in DOMAIN players : players[pid].score >= target_score

\* RPSAIPlayer.get_ai_gesture: every strategy returns one of the three playable
\* gestures (random.choice, or the counter of a playable gesture)
get_ai_gesture == Playable

\* a call of status_broadcaster.broadcast_threadsafe by the game service
Publish(message, on_loop) ==
    /\ broadcast_sync(message, on_loop)
    /\ last_pub' = message

RpsMsg(stage, data) == Msg("rps", stage, data)

ThreadIds == 1..Len(threads)
Alive(t) == threads[t].pc # "done"

\* a new worker thread at the head of _game_loop
NewThread == [pc |-> "while", i |-> 0, captured |-> FALSE]

Goto(t, pc) == threads' = [threads EXCEPT ![t].pc = pc]

---------------------------------------------------------------------------
(* RPSGameService: start_game and stop_game, run by the loop thread *)

\* a start_game without the check of the running game
start_game_unchecked(mode, difficulty, ts) ==
    /\ LoopFree /\ TasksRoom
    /\ mode \in RPSGameMode
    /\ mode = "vs_ai" => difficulty \in RPSGameDifficulty
    /\ game_mode' = mode
    /\ target_score' = ts
    /\ players' = [pid \in (IF mode = "vs_ai" THEN {"player1", "ai"} ELSE {"player1"})
                     |-> RPSPlayer(pid = "ai")]
    /\ ai_player' = IF mode = "vs_ai" THEN difficulty ELSE ai_player
    /\ game_state' = WAITING_FOR_PLAYERS
    /\ current_round' = 0
    /\ round_history' = <<>>
    /\ threads' = Append(threads, NewThread)
    /\ join_credit' = Append(join_credit, join_timeout + 1)
    /\ game_thread' = Len(threads) + 1
    /\ Publish(RpsMsg("game_started", ts), TRUE)
    /\ http_result' = "started"
    /\ UNCHANGED <<connections, queues, npublished, last_broadcast, loop_pc, player_gesture,
                   ws_reply, jvars, wvars, dvars>>

\* start_game(mode, difficulty, target_score)
start_game_call(mode, difficulty, ts) ==
    /\ LoopFree /\ TasksRoom
    /\ IF game_state # IDLE THEN
           /\ http_result' = "error"
           /\ UNCHANGED <<bvars, gvars, tvars, player_gesture, last_pub, jvars, dvars>>
       ELSE IF mode \notin RPSGameMode THEN
           /\ http_result' = "error"
           /\ UNCHANGED <<bvars, gvars, tvars, player_gesture, last_pub, jvars, dvars>>
       ELSE IF mode = "vs_ai" /\ difficulty \notin RPSGameDifficulty THEN
           /\ game_mode' = mode
           /\ target_score' = ts
           /\ players' = [pid \in {"player1"} |-> RPSPlayer(FALSE)]
           /\ http_result' = "error"
           /\ UNCHANGED <<bvars, game_state, ai_player, game_thread, current_round,
                          round_history, tvars, player_gesture, last_pub, jvars, dvars>>
       ELSE
           /\ game_mode' = mode
           /\ target_score' = ts
           /\ players' = [pid \in (IF mode = "vs_ai" THEN {"player1", "ai"} ELSE {"player1"})
                            |-> RPSPlayer(pid = "ai")]
           /\ ai_player' = IF mode = "vs_ai" THEN difficulty ELSE ai_player
           /\ game_state' = WAITING_FOR_PLAYERS
           /\ current_round' = 0
           /\ round_history' = <<>>
           /\ threads' = Append(threads, NewThread)
           /\ join_credit' = Append(join_credit, join_timeout + 1)
           /\ game_thread' = Len(threads) + 1
           /\ Publish(RpsMsg("game_started", ts), TRUE)
           /\ http_result' = "started"
           /\ UNCHANGED <<connections, queues, npublished, last_broadcast, loop_pc, player_gesture,
                          jvars, dvars>>

\* start_game called by the HTTP route
start_game(mode, difficulty, ts) ==
    /\ start_game_call(mode, difficulty, ts)
    /\ UNCHANGED <<ws_reply, wvars>>

\* stop_game(), up to game_thread.join(timeout=2)
stop_game_call ==
    /\ LoopFree /\ TasksRoom
    /\ IF game_state = IDLE THEN
           /\ http_result' = "idle"
           /\ UNCHANGED <<bvars, gvars, tvars, player_gesture, last_pub, jvars, dvars>>
       ELSE
           /\ game_state' = IDLE
           /\ loop_pc' = "join"
           /\ join_credit' = [t \in ThreadIds |-> join_timeout + 1]
           /\ UNCHANGED <<bvars, game_mode, players, ai_player, game_thread, target_score,
                          current_round, round_history, threads, player_gesture,
                          http_result, last_pub, jvars, dvars>>

\* stop_game called by the HTTP route
stop_game_begin ==
    /\ stop_game_call
    /\ UNCHANGED <<ws_reply, wvars>>


(* Time during game_thread.join(timeout=2).  The loop thread is blocked, so  *)
(* only worker threads move.  join_credit[t] is what thread t may still      *)
(* sleep before the 2 seconds are over; join_timeout + 1 means that t has    *)
(* not completed a sleep since the join began (the sleep it was in when the  *)
(* join began may have any remainder).                                       *)
Joining == loop_pc = "join"

\* thread t can complete a sleep of d seconds before the join times out
CanSleep(t, d) == ~Joining \/ join_credit[t] > join_timeout \/ d <= join_credit[t]

\* thread t has completed a sleep of d seconds
Slept(t, d) ==
    join_credit' = IF ~Joining THEN join_credit
                   ELSE [join_credit EXCEPT ![t] =
                            IF @ > join_timeout THEN join_timeout ELSE @ - d]

\* the seconds thread t stays blocked where it is (0: it is not blocked)
BlockedFor(t) ==
    CASE threads[t].pc = "cd_sleep" -> countdown_tick
      [] threads[t].pc = "poll" /\ game_state # IDLE -> gesture_capture_time
      [] threads[t].pc = "result_sleep" -> result_display_time
      [] threads[t].pc = "finish_sleep" -> finish_display_time
      [] OTHER -> 0

\* join(timeout=2) gives up: the thread is alive and blocked beyond the deadline
JoinTimesOut(t) ==
    /\ Alive(t)
    /\ BlockedFor(t) >= Min(join_credit[t], join_timeout)
    /\ BlockedFor(t) > 0

\* stop_game(), from the return of join to the return of stop_game
stop_game_return ==
    /\ Joining
    /\ game_thread = 0 \/ ~Alive(game_thread) \/ JoinTimesOut(game_thread)
    /\ loop_pc' = "idle"
    /\ join_credit' = [t \in ThreadIds |-> join_timeout + 1]
    /\ Publish(RpsMsg("game_stopped", current_round), TRUE)
    /\ http_result' = "stopped"
    /\ UNCHANGED <<connections, queues, npublished, last_broadcast, gvars, threads, player_gesture,
                   jvars, dvars>>

\* the return of the stop_game the HTTP route called
stop_game_end ==
    /\ ws_state # "stopping"
    /\ stop_game_return
    /\ UNCHANGED <<ws_reply, wvars>>

---------------------------------------------------------------------------
(* HandGestureService, as the game worker sees it *)

\* current_gesture and current_confidence as start_gesture_detection resets
\* them: nothing recognised
NoGesture == [gesture |-> UNKNOWN, confidence |-> 0, game |-> 0, round |-> 0, window |-> FALSE]

\* what hand_gesture_service.get_current_gesture() can return at a call: the
\* detection loop of that service stores its results concurrently
get_current_gesture == {[gesture |-> UNKNOWN, confidence |-> 0],
             [gesture |-> ROCK, confidence |-> 8],
             [gesture |-> PAPER, confidence |-> 7]}

---------------------------------------------------------------------------
(* RPSGameService: the worker thread, _game_loop *)

\* while self.game_state != RPSGameState.IDLE
loop_while(t) ==
    /\ threads[t].pc = "while"
    /\ TasksRoom
    /\ Goto(t, IF game_state = IDLE THEN "done" ELSE "check")
    /\ UNCHANGED <<bvars, gvars, loop_pc, join_credit, ovars, jvars, wvars, dvars>>

\* if self._check_game_winner(): self._finish_game(); break   (head and tail of the loop)
loop_check(t) ==
    /\ threads[t].pc \in {"check", "check_after"}
    /\ TasksRoom
    /\ Goto(t, IF _check_game_winner THEN "finish"
               ELSE IF threads[t].pc = "check" THEN "new_round" ELSE "while")
    /\ UNCHANGED <<bvars, gvars, loop_pc, join_credit, ovars, jvars, wvars, dvars>>

\* _start_new_round, up to the countdown loop
_start_new_round(t) ==
    /\ threads[t].pc = "new_round"
    /\ current_round < MaxRounds /\ TasksRoom
    /\ current_round' = current_round + 1
    /\ game_state' = ROUND_COUNTDOWN
    /\ players' = [pid \in DOMAIN players |-> reset_round(players[pid])]
    /\ Publish(RpsMsg("round_start", current_round + 1), FALSE)
    /\ threads' = [threads EXCEPT ![t].pc = "countdown", ![t].i = round_countdown_time]
    /\ UNCHANGED <<connections, queues, npublished, last_broadcast, game_mode, ai_player, game_thread,
                   target_score, round_history, loop_pc, join_credit, player_gesture,
                   http_result, ws_reply, jvars, wvars, dvars>>

\* for i in range(round_countdown_time, 0, -1): one pass of the loop head and body
countdown(t) ==
    /\ threads[t].pc = "countdown"
    /\ TasksRoom
    /\ IF threads[t].i = 0 \/ game_state = IDLE THEN
           \* the loop is over, or `return` on IDLE: back in _game_loop either way
           /\ threads' = [threads EXCEPT ![t].pc = "capture", ![t].i = 0]
           /\ UNCHANGED <<bvars, last_pub>>
       ELSE
           /\ Publish(RpsMsg("countdown", threads[t].i), FALSE)
           /\ Goto(t, "cd_sleep")
           /\ UNCHANGED <<connections, queues, npublished, last_broadcast>>
    /\ UNCHANGED <<gvars, loop_pc, join_credit, player_gesture, http_result, ws_reply, jvars, wvars, dvars>>

\* a countdown that counts two down after each tick
countdown_sleep_skipping(t) ==
    /\ threads[t].pc = "cd_sleep"
    /\ TasksRoom
    /\ CanSleep(t, countdown_tick)
    /\ Slept(t, countdown_tick)
    /\ threads' = [threads EXCEPT ![t].pc = "countdown", ![t].i = IF @ > 1 THEN @ - 2 ELSE 0]
    /\ UNCHANGED <<bvars, gvars, loop_pc, ovars, jvars, wvars, dvars>>

\* time.sleep(1) of the countdown is over
countdown_sleep(t) ==
    /\ threads[t].pc = "cd_sleep"
    /\ TasksRoom
    /\ CanSleep(t, countdown_tick)
    /\ Slept(t, countdown_tick)
    /\ threads' = [threads EXCEPT ![t].pc = "countdown", ![t].i = @ - 1]
    /\ UNCHANGED <<bvars, gvars, loop_pc, ovars, jvars, wvars, dvars>>


\* _wait_for_gestures, up to the polling loop
_wait_for_gestures(t) ==
    /\ threads[t].pc = "capture"
    /\ TasksRoom
    /\ game_state' = ROUND_GESTURE_CAPTURE
    /\ Publish(RpsMsg("gesture_capture", gesture_capture_time), FALSE)
    /\ threads' = [threads EXCEPT ![t].pc = "poll", ![t].captured = FALSE]
    /\ UNCHANGED <<connections, queues, npublished, last_broadcast, game_mode, players, ai_player,
                   game_thread, target_score, current_round, round_history, loop_pc,
                   join_credit, player_gesture, http_result, ws_reply, jvars, wvars, dvars>>

\* the gesture the polling loop accepts: valid and confidence > 0.7
StableGesture(gesture_data) ==
    gesture_data.gesture # UNKNOWN /\ gesture_data.confidence > 7

\* one pass of `while time.time() - start_time < self.gesture_capture_time`
\* in which get_current_gesture() returns gesture_data
poll_reading(t, gesture_data) ==
    /\ threads[t].pc = "poll"
    /\ TasksRoom
    /\ IF game_state = IDLE THEN
           \* return False; _game_loop breaks
           /\ threads' = [threads EXCEPT ![t].pc = "done", ![t].captured = FALSE]
           /\ UNCHANGED players
       ELSE
           IF StableGesture(gesture_data) /\ ~threads[t].captured THEN
               /\ players' = [players EXCEPT
                                 !["player1"].current_gesture = gesture_data.gesture,
                                 !["player1"].gesture_ready = TRUE]
               /\ threads' = [threads EXCEPT ![t].captured = TRUE]
           ELSE
               /\ UNCHANGED <<players, threads>>
    /\ UNCHANGED <<bvars, game_state, game_mode, ai_player, game_thread, target_score,
                   current_round, round_history, loop_pc, join_credit, ovars, jvars, wvars, dvars>>

\* a pass of the polling loop, whatever the gesture service holds
poll(t) == \E gesture_data \in get_current_gesture : poll_reading(t, gesture_data)

\* a pass of the polling loop that reads what the gesture service holds
poll_current(t) ==
    poll_reading(t, [gesture |-> hg_current.gesture, confidence |-> hg_current.confidence])

\* the capture time is over: the AI plays, a silent player is given a random gesture
capture_done(t) ==
    /\ threads[t].pc = "poll"
    /\ TasksRoom
    /\ CanSleep(t, gesture_capture_time)
    /\ Slept(t, gesture_capture_time)
    /\ \E ai_gesture \in get_ai_gesture, random_choice \in Playable :
          players' = [pid \in DOMAIN players |->
              IF pid = "ai"
              THEN [players[pid] EXCEPT !.current_gesture = ai_gesture, !.gesture_ready = TRUE]
              ELSE IF pid = "player1" /\ ~players[pid].gesture_ready
              THEN [players[pid] EXCEPT !.current_gesture = random_choice,
                                        !.gesture_ready = TRUE]
              ELSE players[pid]]
    /\ Goto(t, "result")
    /\ UNCHANGED <<bvars, game_state, game_mode, ai_player, game_thread, target_score,
                   current_round, round_history, loop_pc, ovars, jvars, wvars, dvars>>

\* _process_round_result: list(self.players.values())[1] raises IndexError without an
\* opponent; current_gesture.value raises AttributeError on None, after the scores
_process_round_result(t) ==
    /\ threads[t].pc = "result"
    /\ TasksRoom
    /\ game_state' = ROUND_RESULT
    /\ IF "ai" \notin DOMAIN players THEN
           /\ threads' = [threads EXCEPT ![t].pc = "error", ![t].captured = FALSE]
           /\ UNCHANGED <<players, round_history, bvars, last_pub>>
       ELSE LET player1 == players["player1"]
                opponent == players["ai"]
                result == _determine_winner(player1.current_gesture, opponent.current_gesture)
                lost == IF result = WIN THEN LOSE ELSE IF result = LOSE THEN WIN ELSE DRAW
            IN /\ players' = [players EXCEPT !["player1"] = add_result(@, result),
                                             !["ai"] = add_result(@, lost)]
               /\ IF None \in {player1.current_gesture, opponent.current_gesture} THEN
                      /\ threads' = [threads EXCEPT ![t].pc = "error",
                                                      ![t].captured = FALSE]
                      /\ UNCHANGED <<round_history, bvars, last_pub>>
                  ELSE
                      /\ round_history' = Append(round_history, result)
                      /\ Publish(RpsMsg("round_result", current_round), FALSE)
                      /\ threads' = [threads EXCEPT ![t].pc = "result_sleep",
                                                      ![t].captured = FALSE]
                      /\ UNCHANGED <<connections, queues, npublished, last_broadcast>>
    /\ UNCHANGED <<game_mode, ai_player, game_thread, target_score, current_round,
                   loop_pc, join_credit, player_gesture, http_result, ws_reply, jvars, wvars, dvars>>

\* time.sleep(self.result_display_time) is over
result_sleep(t) ==
    /\ threads[t].pc = "result_sleep"
    /\ TasksRoom
    /\ CanSleep(t, result_display_time)
    /\ Slept(t, result_display_time)
    /\ Goto(t, "check_after")
    /\ UNCHANGED <<bvars, gvars, loop_pc, ovars, jvars, wvars, dvars>>

\* except Exception in _game_loop: the error is published, the state reset
loop_except(t) ==
    /\ threads[t].pc = "error"
    /\ TasksRoom
    /\ Publish(RpsMsg("error", 0), FALSE)
    /\ game_state' = IDLE
    /\ Goto(t, "done")
    /\ UNCHANGED <<connections, queues, npublished, last_broadcast, game_mode, players, ai_player,
                   game_thread, target_score, current_round, round_history, loop_pc,
                   join_credit, player_gesture, http_result, ws_reply, jvars, wvars, dvars>>

\* _finish_game, up to time.sleep(3)
_finish_game(t) ==
    /\ threads[t].pc = "finish"
    /\ TasksRoom
    /\ game_state' = GAME_FINISHED
    /\ Publish(RpsMsg("game_finished", current_round), FALSE)
    /\ Goto(t, "finish_sleep")
    /\ UNCHANGED <<connections, queues, npublished, last_broadcast, game_mode, players, ai_player,
                   game_thread, target_score, current_round, round_history, loop_pc,
                   join_credit, player_gesture, http_result, ws_reply, jvars, wvars, dvars>>

\* a _finish_game that ends without resetting the state
finish_sleep_stuck(t) ==
    /\ threads[t].pc = "finish_sleep"
    /\ TasksRoom
    /\ CanSleep(t, finish_display_time)
    /\ Slept(t, finish_display_time)
    /\ Goto(t, "done")
    /\ UNCHANGED <<bvars, gvars, loop_pc, ovars, jvars, wvars, dvars>>

\* time.sleep(3) is over: self.game_state = RPSGameState.IDLE, the thread ends
finish_sleep(t) ==
    /\ threads[t].pc = "finish_sleep"
    /\ TasksRoom
    /\ CanSleep(t, finish_display_time)
    /\ Slept(t, finish_display_time)
    /\ game_state' = IDLE
    /\ Goto(t, "done")
    /\ UNCHANGED <<bvars, game_mode, players, ai_player, game_thread, target_score,
                   current_round, round_history, loop_pc, ovars, jvars, wvars, dvars>>


---------------------------------------------------------------------------
(* /ws/rps: the frame branch of websocket_rps *)

\* GameState.WAITING_PLAYER, the state in which the machine waits for the player
WAITING_PLAYER == "waiting_player"

\* the state machine starts the countdown of the next round
EnterCountdown ==
    /\ game_state \in {IDLE, ROUND_RESULT}
    /\ current_round < MaxRounds
    /\ game_state' = ROUND_COUNTDOWN
    /\ UNCHANGED <<bvars, game_mode, players, ai_player, game_thread, target_score,
                   current_round, round_history, tvars, ovars, jvars, wvars, dvars>>

\* the state machine enters WAITING_INPUT for the next round, the slot cleared
EnterWaitingInput ==
    /\ game_state = ROUND_COUNTDOWN
    /\ game_state' = WAITING_PLAYER
    /\ current_round' = current_round + 1
    /\ player_gesture' = None
    /\ UNCHANGED <<bvars, game_mode, players, ai_player, game_thread, target_score,
                   round_history, tvars, http_result, ws_reply, last_pub, jvars, wvars, dvars>>

\* the state machine leaves WAITING_INPUT: an input was recorded or the wait timed out
LeaveWaitingInput ==
    /\ game_state = WAITING_PLAYER
    /\ game_state' = ROUND_RESULT
    /\ UNCHANGED <<bvars, game_mode, players, ai_player, game_thread, target_score,
                   current_round, round_history, tvars, ovars, jvars, wvars, dvars>>

\* the state machine ends the game after a result
EnterFinished ==
    /\ game_state = ROUND_RESULT
    /\ game_state' = GAME_FINISHED
    /\ UNCHANGED <<bvars, game_mode, players, ai_player, game_thread, target_score,
                   current_round, round_history, tvars, ovars, jvars, wvars, dvars>>

\* the finished game goes back to IDLE
LeaveFinished ==
    /\ game_state = GAME_FINISHED
    /\ game_state' = IDLE
    /\ current_round' = 0
    /\ UNCHANGED <<bvars, game_mode, players, ai_player, game_thread, target_score,
                   round_history, tvars, ovars, jvars, wvars, dvars>>

\* submit_player_gesture(image): rejected outside WAITING_PLAYER and for an
\* unrecognised gesture, else the gesture is the player's
submit_player_gesture(gesture) ==
    /\ LoopFree
    /\ IF game_state # WAITING_PLAYER \/ gesture = UNKNOWN THEN
           /\ http_result' = "error"
           /\ UNCHANGED player_gesture
       ELSE
           /\ http_result' = "success"
           /\ player_gesture' = gesture
    /\ UNCHANGED <<bvars, gvars, tvars, ws_reply, last_pub, jvars, wvars, dvars>>

WsReply(type, gesture, confidence, is_valid) ==
    [type |-> type, gesture |-> gesture, confidence |-> confidence, is_valid |-> is_valid]

\* a guard that forgets to look at the gesture already recorded
AutoSetAlways(gesture, confidence) ==
    /\ game_state = WAITING_PLAYER
    /\ gesture # UNKNOWN
    /\ confidence > 6

\* a guard that forgets to look at the state of the game
AutoSetAnyState(gesture, confidence) ==
    /\ gesture # UNKNOWN
    /\ confidence > 6
    /\ player_gesture = None

\* the guard of the automatic setting of the player's gesture
AutoSet(gesture, confidence) ==
    /\ game_state = WAITING_PLAYER
    /\ gesture # UNKNOWN
    /\ confidence > 6
    /\ player_gesture = None

\* message_type == "frame": decode, detect, set the gesture, reply
WsFrame(decodable, gesture, confidence) ==
    /\ LoopFree
    /\ IF ~decodable THEN
           /\ ws_reply' = WsReply("error", None, 0, FALSE)
           /\ UNCHANGED player_gesture
       ELSE
           /\ player_gesture' = IF AutoSet(gesture, confidence) THEN gesture
                                ELSE player_gesture
           /\ ws_reply' = WsReply("recognition_result", gesture, confidence,
                                  gesture # UNKNOWN)
    /\ ws_sends' = 1
    /\ UNCHANGED <<bvars, gvars, tvars, http_result, last_pub, jvars,
                   ws_path, ws_inbox, ws_handled, gesture_session_active, ws_state, ws_queue, ws_fwd, dvars>>

\* message_type == "no_gesture_detected": the player's gesture becomes UNKNOWN
\* whenever the machine waits for the player; the reply is gesture_set
WsNoGesture ==
    /\ LoopFree
    /\ player_gesture' = IF game_state = WAITING_PLAYER THEN UNKNOWN ELSE player_gesture
    /\ ws_reply' = WsReply("gesture_set", UNKNOWN, 0, FALSE)
    /\ ws_sends' = 1
    /\ UNCHANGED <<bvars, gvars, tvars, http_result, last_pub, jvars,
                   ws_path, ws_inbox, ws_handled, gesture_session_active, ws_state, ws_queue, ws_fwd, dvars>>

---------------------------------------------------------------------------
(* The websocket handlers websocket_rps, websocket_gesture, websocket_action:
   one connection, served by the handler of the endpoint ws_path *)

WsPaths == {"rps", "gesture", "action"}

\* the handler is between two messages
WsOpen == ws_state = "open" /\ LoopFree

\* what a handler step leaves alone when it touches neither game nor broadcaster
WsRest == <<bvars, gvars, tvars, player_gesture, http_result, last_pub, jvars, ws_path,
            ws_inbox, ws_handled, gesture_session_active,
            ws_queue, dvars>>

\* websocket.accept(); queue = await status_broadcaster.register()
WsConnect ==
    /\ ws_state = "none" /\ LoopFree /\ Len(queues) < MaxQueues
    /\ queues' = Append(queues, <<>>)
    /\ connections' = connections \cup {Len(queues) + 1}
    /\ ws_queue' = Len(queues) + 1
    /\ ws_state' = "open"
    /\ UNCHANGED <<loop_set, tasks, npublished, last_broadcast, gvars, tvars, ovars, jvars,
                   ws_path, ws_inbox, ws_handled, gesture_session_active, ws_sends, ws_fwd, dvars>>

\* message_type == "ping"
WsPing ==
    /\ WsOpen
    /\ ws_reply' = [type |-> "pong"]
    /\ ws_sends' = 1
    /\ UNCHANGED <<WsRest, ws_state, ws_fwd>>

\* the reply to a game_control message: the result of the service, re-tagged
WsControlAck(action, status) == [type |-> "control_ack", action |-> action, status |-> status]

\* the reply to what the handler cannot serve
WsError(message) == [type |-> "error", message |-> message]

\* the values of "target_score" in the start_game messages of the clients,
\* as the service reads them: a number, or the name of a game mode
WsTargetScores == {ToString(ts) : ts \in 1..MaxTarget} \cup {"vs_ai"}

\* game_control, start_game: rps_game_service.start_game(target_score), whose
\* first positional parameter is the mode
WsControlStart(value) ==
    /\ WsOpen
    /\ start_game_call(value, "medium", 3)
    /\ ws_reply' = WsControlAck("start_game", http_result')
    /\ ws_sends' = 1
    /\ UNCHANGED <<ws_path, ws_inbox, ws_handled, gesture_session_active, ws_state, ws_queue, ws_fwd>>

\* game_control, stop_game: rps_game_service.stop_game(), which answers at
\* once when the game is idle and else blocks the loop in its join
WsControlStop ==
    /\ WsOpen
    /\ stop_game_call
    /\ IF game_state = IDLE THEN
           /\ ws_reply' = WsControlAck("stop_game", "idle")
           /\ ws_sends' = 1
           /\ UNCHANGED ws_state
       ELSE
           /\ ws_state' = "stopping"
           /\ ws_sends' = 0
           /\ UNCHANGED ws_reply
    /\ UNCHANGED <<ws_path, ws_inbox, ws_handled, gesture_session_active, ws_queue, ws_fwd>>

\* stop_game() returns to the handler, which sends the control_ack
WsControlStopEnd ==
    /\ ws_state = "stopping"
    /\ stop_game_return
    /\ ws_reply' = WsControlAck("stop_game", "stopped")
    /\ ws_sends' = 1
    /\ ws_state' = "open"
    /\ UNCHANGED <<ws_path, ws_inbox, ws_handled, gesture_session_active, ws_queue, ws_fwd>>

\* a handler that drops a game_control message whose action it does not know
WsControlUnknownSilent ==
    /\ WsOpen
    /\ ws_sends' = 0
    /\ UNCHANGED <<WsRest, ws_reply, ws_state, ws_fwd>>

\* game_control with another action
WsControlUnknown ==
    /\ WsOpen
    /\ ws_reply' = WsError("action")
    /\ ws_sends' = 1
    /\ UNCHANGED <<WsRest, ws_state, ws_fwd>>

\* a message of a type the handler does not know
WsUnknownType ==
    /\ WsOpen
    /\ ws_reply' = WsError("type")
    /\ ws_sends' = 1
    /\ UNCHANGED <<WsRest, ws_state, ws_fwd>>

\* a text that is no JSON (receive_json raises) or a JSON value that is no
\* object (result.get raises): the exception is logged, nothing is sent
WsMalformed ==
    /\ WsOpen
    /\ ws_sends' = 0
    /\ UNCHANGED <<WsRest, ws_reply, ws_state, ws_fwd>>

\* the channel whose events the handler of an endpoint forwards
WsChannel(path) == IF path = "rps" THEN "rps_game" ELSE path

\* what is sent for an event: /ws/rps adds the type game_state, the other
\* endpoints send the event as it is
Retag(path, message) ==
    [type |-> IF path = "rps" THEN "game_state" ELSE "none",
     channel |-> message.channel, stage |-> message.stage, data |-> message.data]

\* queue.get() returns an event: it is sent if it is on the handler's channel
WsForward ==
    /\ WsOpen
    /\ ws_queue # 0 /\ queues[ws_queue] # <<>>
    /\ queues' = [queues EXCEPT ![ws_queue] = Tail(@)]
    /\ IF Head(queues[ws_queue]).channel = WsChannel(ws_path) THEN
           /\ ws_fwd' = Retag(ws_path, Head(queues[ws_queue]))
           /\ ws_sends' = 1
       ELSE
           /\ ws_sends' = 0
           /\ UNCHANGED ws_fwd
    /\ UNCHANGED <<loop_set, connections, tasks, npublished, last_broadcast, gvars, tvars,
                   ovars, jvars, ws_path, ws_inbox, ws_handled, gesture_session_active, ws_state, ws_queue, dvars>>

\* /ws/rps: receive_json or send_json raises because the client is gone. The
\* handler recognises the disconnect by the text of the exception and leaves
\* its loop; an exception it does not recognise is logged and the loop goes on
WsDisconnect(detected) ==
    /\ WsOpen /\ ws_path = "rps"
    /\ ws_state' = IF detected THEN "exiting" ELSE ws_state
    /\ ws_sends' = 0
    /\ UNCHANGED <<WsRest, ws_reply, ws_fwd>>

\* /ws/gesture, /ws/action: send_json of an event raises because the client is
\* gone; whatever the exception, the handler leaves its loop
WsForwardFails ==
    /\ WsOpen /\ ws_path # "rps"
    /\ ws_queue # 0 /\ queues[ws_queue] # <<>>
    /\ Head(queues[ws_queue]).channel = WsChannel(ws_path)
    /\ queues' = [queues EXCEPT ![ws_queue] = Tail(@)]
    /\ ws_state' = "exiting"
    /\ ws_sends' = 0
    /\ UNCHANGED <<loop_set, connections, tasks, npublished, last_broadcast, gvars, tvars,
                   ovars, jvars, ws_path, ws_inbox, ws_handled, gesture_session_active, ws_queue, ws_fwd, dvars>>

\* the handler task is cancelled, or another exception leaves its loop
WsAbort ==
    /\ WsOpen
    /\ ws_state' = "exiting"
    /\ UNCHANGED <<WsRest, ws_reply, ws_sends, ws_fwd>>

\* a handler that returns without unregistering its queue
WsFinallyLeak ==
    /\ ws_state = "exiting" /\ LoopFree
    /\ ws_state' = "closed"
    /\ UNCHANGED <<WsRest, ws_reply, ws_sends, ws_fwd>>

\* finally: await status_broadcaster.unregister(queue)
WsFinally ==
    /\ ws_state = "exiting" /\ LoopFree
    /\ connections' = connections \ {ws_queue}
    /\ ws_state' = "closed"
    /\ UNCHANGED <<loop_set, queues, tasks, npublished, last_broadcast, gvars, tvars, ovars,
                   jvars, ws_path, ws_inbox, ws_handled, gesture_session_active, ws_queue, ws_sends, ws_fwd, dvars>>

---------------------------------------------------------------------------
(* The detection services: HandGestureService, ActionDetectionService and
   DrawingService. One service is modelled; det_kind says which. Its start and
   stop run on the loop thread, its loop runs in a thread of its own. *)

DetKinds == {"gesture", "action", "drawing"}

\* an event of the service on its channel
DetMsg(stage) == Msg(det_kind, stage, 0)

DetThreadIds == 1..Len(det_threads)
DetAlive(t) == det_threads[t].pc \notin {"done", "raised"}
DetGoto(t, pc) == det_threads' = [det_threads EXCEPT ![t].pc = pc]

\* a new detection thread at the head of its loop; ret is the local of the
\* loop that holds what camera.read() returned last
NewDetThread == [pc |-> "while", failed |-> FALSE, ret |-> TRUE]

\* the services whose start asks the recognizer adapter is_available()
ChecksAvailable(kind) == kind \in {"gesture", "drawing"}

\* a start that does not look at the running flag
start_detection_unchecked(opened, websocket_mode) ==
    /\ LoopFree /\ TasksRoom
    /\ IF ChecksAvailable(det_kind) /\ ~det_available THEN
           /\ det_reply' = "error"
           /\ UNCHANGED <<bvars, last_pub, loop_pc, is_detecting, camera, cam_open,
                          det_threads, det_thread, det_stats>>
       ELSE
           /\ det_stats' = 0
           /\ camera' = "capture" /\ cam_open' = TRUE
           /\ is_detecting' = TRUE
           /\ det_threads' = Append(det_threads, NewDetThread)
           /\ det_thread' = Len(det_threads) + 1
           /\ Publish(DetMsg("started"), TRUE)
           /\ det_reply' = "started"
           /\ UNCHANGED <<connections, queues, npublished, last_broadcast, loop_pc>>
    /\ UNCHANGED <<gvars, threads, join_credit, player_gesture, http_result, ws_reply,
                   jvars, wvars, det_kind, cvars, hg_current, det_available, det_stopped, det_join>>

\* start_gesture_detection / start_action_detection / start_drawing_session:
\* opened is what isOpened() of the new capture says, websocket_mode is the
\* parameter of the drawing service (no camera, no thread)
start_detection(opened, websocket_mode) ==
    /\ LoopFree /\ TasksRoom
    /\ IF ChecksAvailable(det_kind) /\ ~det_available THEN
           \* the recognizer is not available
           /\ det_reply' = "error"
           /\ UNCHANGED <<bvars, last_pub, loop_pc, is_detecting, camera, cam_open,
                          det_threads, det_thread, det_stats>>
       ELSE IF is_detecting THEN
           \* already running
           /\ det_reply' = "error"
           /\ UNCHANGED <<bvars, last_pub, loop_pc, is_detecting, camera, cam_open,
                          det_threads, det_thread, det_stats>>
       ELSE IF det_kind = "drawing" /\ websocket_mode THEN
           \* frames come over the websocket: no camera, no thread
           /\ det_stats' = 0
           /\ is_detecting' = TRUE
           /\ Publish(DetMsg("started"), TRUE)
           /\ det_reply' = "started"
           /\ UNCHANGED <<connections, queues, npublished, last_broadcast, loop_pc,
                          camera, cam_open, det_threads, det_thread>>
       ELSE IF ~opened THEN
           \* cv2.VideoCapture(0) did not open: the capture stays in self.camera;
           \* the action service has reset its score by then
           /\ camera' = "capture" /\ cam_open' = FALSE
           /\ det_stats' = IF det_kind = "action" THEN 0 ELSE det_stats
           /\ det_reply' = "error"
           /\ UNCHANGED <<bvars, last_pub, loop_pc, is_detecting, det_threads, det_thread>>
       ELSE IF det_kind = "drawing" THEN
           \* the drawing thread is started before the session is marked running
           /\ camera' = "capture" /\ cam_open' = TRUE
           /\ det_threads' = Append(det_threads, NewDetThread)
           /\ det_thread' = Len(det_threads) + 1
           /\ loop_pc' = "start_flag"
           /\ UNCHANGED <<bvars, last_pub, is_detecting, det_stats, det_reply>>
       ELSE
           /\ camera' = "capture" /\ cam_open' = TRUE
           /\ det_stats' = 0
           /\ is_detecting' = TRUE
           /\ det_threads' = Append(det_threads, NewDetThread)
           /\ det_thread' = Len(det_threads) + 1
           /\ Publish(DetMsg("started"), TRUE)
           /\ det_reply' = "started"
           /\ UNCHANGED <<connections, queues, npublished, last_broadcast, loop_pc>>
    \* the gesture service forgets its last gesture once the camera is open
    /\ hg_current' = IF /\ det_kind = "gesture" /\ opened /\ ~is_detecting
                         /\ ~(ChecksAvailable(det_kind) /\ ~det_available)
                      THEN NoGesture ELSE hg_current
    /\ UNCHANGED <<gvars, threads, join_credit, player_gesture, http_result, ws_reply,
                   jvars, wvars, det_kind, cvars, det_available, det_stopped, det_join>>

\* start_drawing_session after drawing_thread.start(): the state is reset,
\* self.is_drawing = True, the started event, the reply
start_drawing_flag ==
    /\ loop_pc = "start_flag"
    /\ det_stats' = 0
    /\ is_detecting' = TRUE
    /\ Publish(DetMsg("started"), TRUE)
    /\ det_reply' = "started"
    /\ loop_pc' = "idle"
    /\ UNCHANGED <<connections, queues, npublished, last_broadcast, gvars, threads,
                   join_credit, player_gesture, http_result, ws_reply, jvars, wvars,
                   det_kind, cvars, hg_current, det_available, camera, cam_open, det_threads, det_thread,
                   det_stopped, det_join>>

\* stop_...(): not running: the "idle" reply; else the flag is cleared
stop_detection_begin ==
    /\ LoopFree
    /\ IF ~is_detecting THEN
           /\ det_reply' = "idle"
           /\ UNCHANGED <<is_detecting, loop_pc, det_stopped, det_join>>
       ELSE
           /\ is_detecting' = FALSE
           /\ loop_pc' = "stop_camera"
           /\ det_stopped' = 0
           /\ det_join' = "none"
           /\ UNCHANGED det_reply
    /\ UNCHANGED <<bvars, gvars, threads, join_credit, ovars, jvars, wvars, det_kind, cvars, hg_current,
                   det_available, camera, cam_open, det_threads, det_thread, det_stats>>

\* if self.camera:
stop_detection_camera ==
    /\ loop_pc = "stop_camera"
    /\ loop_pc' = IF camera # "None" THEN "stop_release" ELSE "stop_join"
    /\ UNCHANGED <<bvars, gvars, threads, join_credit, ovars, jvars, wvars, dvars>>

\* a stop that keeps the released capture in self.camera
stop_detection_keep ==
    /\ loop_pc = "stop_none"
    /\ loop_pc' = "stop_join"
    /\ UNCHANGED <<bvars, gvars, threads, join_credit, ovars, jvars, wvars, dvars>>

\* self.camera.release(): an AttributeError ends the stop if the loop has set
\* self.camera to None in between
stop_detection_release ==
    /\ loop_pc = "stop_release"
    /\ IF camera = "None" THEN
           /\ det_reply' = "raised"
           /\ loop_pc' = "idle"
           /\ UNCHANGED cam_open
       ELSE
           /\ cam_open' = FALSE
           /\ loop_pc' = "stop_none"
           /\ UNCHANGED det_reply
    /\ UNCHANGED <<bvars, gvars, threads, join_credit, ovars, jvars, wvars, det_kind, cvars, hg_current,
                   det_available, is_detecting, camera, det_threads, det_thread,
                   det_stats, det_stopped, det_join>>

\* self.camera = None: the capture loses its last reference, and the
\* destructor of a capture releases its device
stop_detection_none ==
    /\ loop_pc = "stop_none"
    /\ camera' = "None" /\ cam_open' = FALSE
    /\ loop_pc' = "stop_join"
    /\ UNCHANGED <<bvars, gvars, threads, join_credit, ovars, jvars, wvars, det_kind, cvars, hg_current,
                   det_available, is_detecting, det_threads, det_thread,
                   det_stats, det_reply, det_stopped, det_join>>

\* the thread join(timeout=2) waits for: it has ended, or it is still inside
\* camera.read() when the two seconds are over
JoinEnds(t) == ~DetAlive(t) \/ det_threads[t].pc = "read"

\* if self.detection_thread: join(timeout=2); the stopped event; the reply
stop_detection_end ==
    /\ loop_pc = "stop_join"
    /\ det_thread # 0 => JoinEnds(det_thread)
    /\ det_join' = IF det_thread # 0 /\ DetAlive(det_thread) THEN "timeout" ELSE "joined"
    /\ Publish(DetMsg("stopped"), TRUE)
    /\ det_stopped' = det_stopped + 1
    /\ det_reply' = "stopped"
    /\ loop_pc' = "idle"
    /\ UNCHANGED <<connections, queues, npublished, last_broadcast, gvars, threads,
                   join_credit, player_gesture, http_result, ws_reply, jvars, wvars,
                   det_kind, cvars, hg_current, det_available, is_detecting, camera, cam_open, det_threads,
                   det_thread, det_stats>>

---------------------------------------------------------------------------
(* _detection_loop / _drawing_loop, run by a detection thread *)

\* what the steps of a detection thread leave alone besides the service
DetRest == <<gvars, threads, loop_pc, join_credit, player_gesture, http_result, ws_reply,
             jvars, wvars, det_kind, cvars, hg_current, det_available, det_thread, det_reply, det_join>>

\* an exception inside the try: the except clause of the gesture and drawing
\* loops, the finally clause alone in the action loop
Raise(t) ==
    det_threads' = [det_threads EXCEPT
                      ![t] = IF det_kind = "action"
                             THEN [det_threads[t] EXCEPT !.pc = "finally", !.failed = TRUE]
                             ELSE [det_threads[t] EXCEPT !.pc = "except", !.failed = FALSE]]

\* the thread ends: silently, or with the exception that is still pending
End(t) == DetGoto(t, IF det_threads[t].failed THEN "raised" ELSE "done")

\* while self.is_detecting ...
det_while(t) ==
    /\ det_threads[t].pc = "while" /\ TasksRoom
    /\ DetGoto(t, IF is_detecting THEN "check_camera" ELSE "finally")
    /\ UNCHANGED <<bvars, last_pub, DetRest, is_detecting, camera, cam_open, det_stats,
                   det_stopped>>

\* ... and self.camera ...
det_check_camera(t) ==
    /\ det_threads[t].pc = "check_camera" /\ TasksRoom
    /\ DetGoto(t, IF camera # "None" THEN "is_opened" ELSE "finally")
    /\ UNCHANGED <<bvars, last_pub, DetRest, is_detecting, camera, cam_open, det_stats,
                   det_stopped>>

\* ... and self.camera.isOpened(); the gesture loop may then break because
\* its duration is over
det_is_opened(t) ==
    /\ det_threads[t].pc = "is_opened" /\ TasksRoom
    /\ IF camera = "None" THEN Raise(t)
       ELSE IF ~cam_open THEN DetGoto(t, "finally")
       ELSE \/ DetGoto(t, "read")
            \/ det_kind = "gesture" /\ DetGoto(t, "finally")
    /\ UNCHANGED <<bvars, last_pub, DetRest, is_detecting, camera, cam_open, det_stats,
                   det_stopped>>

\* ret, frame = self.camera.read(); if not ret: break
det_read(t) ==
    /\ det_threads[t].pc = "read" /\ TasksRoom
    /\ IF camera = "None" THEN Raise(t)
       ELSE IF ~cam_open THEN DetGoto(t, "finally")
       ELSE \E ret \in BOOLEAN :
               det_threads' = [det_threads EXCEPT ![t].pc = IF ret THEN "body" ELSE "finally",
                                                  ![t].ret = ret]
    /\ UNCHANGED <<bvars, last_pub, DetRest, is_detecting, camera, cam_open, det_stats,
                   det_stopped>>

\* the rest of the iteration: nothing recognised; a detection that is counted
\* and published; an exception; the action game completed (_complete_game)
det_body(t) ==
    /\ det_threads[t].pc = "body" /\ TasksRoom
    /\ \/ /\ DetGoto(t, "while")
          /\ UNCHANGED <<bvars, last_pub, is_detecting, det_stats>>
       \/ /\ det_stats < MaxDetections
          /\ det_stats' = det_stats + 1
          /\ Publish(DetMsg("detecting"), FALSE)
          /\ DetGoto(t, "while")
          /\ UNCHANGED <<connections, queues, npublished, last_broadcast, is_detecting>>
       \/ /\ Raise(t)
          /\ UNCHANGED <<bvars, last_pub, is_detecting, det_stats>>
       \/ /\ det_kind = "action"
          /\ Publish(DetMsg("game_completed"), FALSE)
          /\ is_detecting' = FALSE
          /\ DetGoto(t, "while")
          /\ UNCHANGED <<connections, queues, npublished, last_broadcast, det_stats>>
    /\ UNCHANGED <<DetRest, camera, cam_open, det_stopped>>

\* except Exception: the error event
det_except(t) ==
    /\ det_threads[t].pc = "except" /\ TasksRoom
    /\ Publish(DetMsg("error"), FALSE)
    /\ DetGoto(t, "finally")
    /\ UNCHANGED <<connections, queues, npublished, last_broadcast, DetRest, is_detecting,
                   camera, cam_open, det_stats, det_stopped>>

\* finally: if self.camera:
det_finally(t) ==
    /\ det_threads[t].pc = "finally" /\ TasksRoom
    /\ DetGoto(t, IF camera # "None" THEN "finally_release" ELSE "finally_flag")
    /\ UNCHANGED <<bvars, last_pub, DetRest, is_detecting, camera, cam_open, det_stats,
                   det_stopped>>

\* self.camera.release(): an AttributeError ends the thread if stop has set
\* self.camera to None in between
det_finally_release(t) ==
    /\ det_threads[t].pc = "finally_release" /\ TasksRoom
    /\ IF camera = "None" THEN
           /\ DetGoto(t, "raised")
           /\ UNCHANGED cam_open
       ELSE
           /\ cam_open' = FALSE
           /\ DetGoto(t, "finally_none")
    /\ UNCHANGED <<bvars, last_pub, DetRest, is_detecting, camera, det_stats, det_stopped>>

\* self.camera = None (the capture loses its last reference)
det_finally_none(t) ==
    /\ det_threads[t].pc = "finally_none" /\ TasksRoom
    /\ camera' = "None" /\ cam_open' = FALSE
    /\ DetGoto(t, "finally_flag")
    /\ UNCHANGED <<bvars, last_pub, DetRest, is_detecting, det_stats, det_stopped>>

\* if self.is_detecting: self.stop_...()
det_finally_flag(t) ==
    /\ det_threads[t].pc = "finally_flag" /\ TasksRoom
    /\ IF is_detecting THEN DetGoto(t, "self_stop") ELSE End(t)
    /\ UNCHANGED <<bvars, last_pub, DetRest, is_detecting, camera, cam_open, det_stats,
                   det_stopped>>

\* stop_...() called by the loop itself: the running check, the flag
det_self_stop(t) ==
    /\ det_threads[t].pc = "self_stop" /\ TasksRoom
    /\ IF ~is_detecting THEN
           /\ End(t)
           /\ UNCHANGED is_detecting
       ELSE
           /\ is_detecting' = FALSE
           /\ DetGoto(t, "self_stop_camera")
    /\ UNCHANGED <<bvars, last_pub, DetRest, camera, cam_open, det_stats, det_stopped>>

\* if self.camera: release it and set it to None
det_self_stop_camera(t) ==
    /\ det_threads[t].pc = "self_stop_camera" /\ TasksRoom
    /\ camera' = "None" /\ cam_open' = FALSE
    /\ DetGoto(t, "self_stop_join")
    /\ UNCHANGED <<bvars, last_pub, DetRest, is_detecting, det_stats, det_stopped>>

\* self.detection_thread.join(timeout=2): a RuntimeError when the thread joins
\* itself; else the wait, the stopped event and the end of the thread
det_self_stop_join(t) ==
    /\ det_threads[t].pc = "self_stop_join" /\ TasksRoom
    /\ IF det_thread = t THEN
           /\ DetGoto(t, "raised")
           /\ UNCHANGED <<bvars, last_pub, det_stopped>>
       ELSE
           /\ det_thread # 0 => JoinEnds(det_thread)
           /\ Publish(DetMsg("stopped"), FALSE)
           /\ End(t)
           /\ UNCHANGED <<connections, queues, npublished, last_broadcast, det_stopped>>
    /\ UNCHANGED <<DetRest, is_detecting, camera, cam_open, det_stats>>

DetWorker(t) ==
    \/ det_while(t) \/ det_check_camera(t) \/ det_is_opened(t) \/ det_read(t)
    \/ det_body(t) \/ det_except(t) \/ det_finally(t) \/ det_finally_release(t)
    \/ det_finally_none(t) \/ det_finally_flag(t) \/ det_self_stop(t)
    \/ det_self_stop_camera(t) \/ det_self_stop_join(t)

---------------------------------------------------------------------------
(* Harness of the pure functions _determine_winner and add_result *)

JudgeInputs == HandGestureType \cup {None}

JudgeApply ==
    /\ jresult = "none"
    /\ jplayer.wins + jplayer.losses + jplayer.draws < MaxJudged
    /\ jresult' = _determine_winner(jg1, jg2)
    /\ jplayer' = add_result(jplayer, _determine_winner(jg1, jg2))
    /\ UNCHANGED <<jg1, jg2, bvars, gvars, tvars, ovars, wvars, dvars>>

JudgePick(g1, g2) ==
    /\ jresult # "none"
    /\ jg1' = g1 /\ jg2' = g2
    /\ jresult' = "none"
    /\ UNCHANGED <<jplayer, bvars, gvars, tvars, ovars, wvars, dvars>>

---------------------------------------------------------------------------
(* Specifications *)

InitRest ==
    /\ loop_set = FALSE /\ connections = {} /\ queues = <<>> /\ tasks = <<>>
    /\ npublished = 0
    /\ last_broadcast = [message |-> Msg("none", "none", 0), dead |-> {}]
    /\ game_state = IDLE /\ game_mode = "vs_ai" /\ players = <<>>
    /\ ai_player = None /\ game_thread = 0 /\ target_score = 3
    /\ current_round = 0 /\ round_history = <<>>
    /\ threads = <<>> /\ loop_pc = "idle" /\ join_credit = <<>>
    /\ player_gesture = None
    /\ http_result = "none"
    /\ ws_reply = WsReply("none", None, 0, FALSE)
    /\ last_pub = Msg("none", "none", 0)
    /\ jresult = "none" /\ jplayer = RPSPlayer(FALSE)
    /\ ws_state = "none" /\ ws_queue = 0 /\ ws_sends = 0
    /\ ws_fwd = Msg("none", "none", 0)
    /\ challenges = <<>> /\ current_challenge_index = 0
    /\ ws_inbox = <<>> /\ ws_handled = [receive |-> 0, broadcast |-> 0]
    /\ gesture_session_active = FALSE
    /\ hg_current = NoGesture
    /\ is_detecting = FALSE /\ camera = "None" /\ cam_open = FALSE /\ det_threads = <<>>
    /\ det_thread = 0 /\ det_stats = 0 /\ det_reply = "none"
    /\ det_stopped = 0 /\ det_join = "none"

InitGame == InitRest /\ ws_path = "rps" /\ det_kind = "gesture" /\ det_available = TRUE

Init == InitGame /\ jg1 = None /\ jg2 = None

\* the inputs of the clients
Modes == {"vs_ai", "vs_player", "invalid"}
Difficulties == {"medium", "invalid"}
TargetScores == 1..MaxTarget

Worker(t) ==
    \/ loop_while(t) \/ loop_check(t) \/ _start_new_round(t) \/ countdown(t)
    \/ countdown_sleep(t) \/ _wait_for_gestures(t) \/ poll(t) \/ capture_done(t)
    \/ _process_round_result(t) \/ result_sleep(t) \/ loop_except(t)
    \/ _finish_game(t) \/ finish_sleep(t)

\* start_game called by a client, while fewer than n worker threads were created
StartGame(n) ==
    \E mode \in Modes, difficulty \in Difficulties, ts \in TargetScores :
        /\ game_state # IDLE \/ Len(threads) < n
        /\ start_game(mode, difficulty, ts)

\* the game service, its worker thread and the loop that delivers its events
Next ==
    \/ SetLoop
    \/ RunBroadcast
    \/ StartGame(MaxThreads)
    \/ stop_game_begin
    \/ stop_game_end
    \/ \E t \in ThreadIds : Worker(t)

Spec == Init /\ [][Next]_vars

\* games started one after the other and played to their end, never stopped
NextStart ==
    \/ SetLoop
    \/ RunBroadcast
    \/ StartGame(MaxGames)
    \/ \E t \in ThreadIds : Worker(t)

SpecStart == Init /\ [][NextStart]_vars

\* the same games with their threads scheduled: a worker thread that can
\* take a step takes one, and the loop runs the coroutines scheduled on it
FairStart ==
    /\ \A t \in 1..MaxGames : WF_vars(t \in ThreadIds /\ Worker(t))
    /\ WF_vars(RunBroadcast)

SpecStartFair == SpecStart /\ FairStart

\* the game service started again after a game has ended or was stopped
NextRestart ==
    \/ SetLoop
    \/ RunBroadcast
    \/ StartGame(MaxGames)
    \/ stop_game_begin
    \/ stop_game_end
    \/ \E t \in ThreadIds : Worker(t)

SpecRestart == Init /\ [][NextRestart]_vars

\* the broadcaster with its subscribers and publishers
NextBroadcaster ==
    \/ SetLoop
    \/ Register
    \/ \E q \in QueueIds : Unregister(q)
    \/ \E q \in QueueIds : QueueGet(q)
    \/ PublishDirect
    \/ \E on_loop \in BOOLEAN : PublishSync(on_loop)
    \/ RunBroadcast

SpecBroadcaster == Init /\ [][NextBroadcaster]_vars

\* subscribers that come and go, also more than once, while a coroutine on
\* the loop publishes
NextUnregister ==
    \/ Register
    \/ \E q \in UnregisterArgs : Unregister(q)
    \/ PublishDirect

SpecUnregister == Init /\ [][NextUnregister]_vars

\* publishers that publish before and after the loop is known, and
\* subscribers that register before and after
NextPublish ==
    \/ SetLoop
    \/ Register
    \/ PublishDirect
    \/ \E on_loop \in BOOLEAN : PublishSync(on_loop)
    \/ RunBroadcast

SpecPublish == Init /\ [][NextPublish]_vars

\* the judging function on every pair of gestures
InitJudge == InitGame /\ jg1 \in JudgeInputs /\ jg2 \in JudgeInputs

NextJudge ==
    \/ JudgeApply
    \/ \E g1 \in JudgeInputs, g2 \in JudgeInputs : JudgePick(g1, g2)

\* the frames of the websocket clients during the rounds of a game
NextWs ==
    \/ EnterCountdown
    \/ EnterWaitingInput
    \/ LeaveWaitingInput
    \/ EnterFinished
    \/ LeaveFinished
    \/ \E gesture \in HandGestureType : submit_player_gesture(gesture)
    \/ \E decodable \in BOOLEAN, gesture \in HandGestureType, confidence \in Confidences :
          WsFrame(decodable, gesture, confidence)
    \/ WsNoGesture

SpecWs == Init /\ [][NextWs]_vars

SpecJudge == InitJudge /\ [][NextJudge]_vars

\* one detection service, whichever, with its recognizer available or not
InitDetect ==
    /\ InitRest /\ ws_path = "rps" /\ jg1 = None /\ jg2 = None
    /\ det_kind \in DetKinds /\ det_available \in BOOLEAN

\* start called by a client, while fewer than MaxDetThreads threads were created
StartDetection ==
    \E opened \in BOOLEAN, websocket_mode \in BOOLEAN :
        /\ is_detecting \/ Len(det_threads) < MaxDetThreads
        /\ det_kind # "drawing" => ~websocket_mode
        /\ start_detection(opened, websocket_mode)

NextDetect ==
    \/ RunBroadcast
    \/ StartDetection
    \/ start_drawing_flag
    \/ stop_detection_begin
    \/ stop_detection_camera
    \/ stop_detection_release
    \/ stop_detection_none
    \/ stop_detection_end
    \/ \E t \in DetThreadIds : DetWorker(t)

SpecDetect == InitDetect /\ [][NextDetect]_vars

---------------------------------------------------------------------------
(* The challenges of the action service: start_action_detection sets them
   up, each pass of _detection_loop that has features scores the current one *)

\* self.challenge_sets: the thresholds of the challenges of a level, in tenths
challenge_sets(level) ==
    IF level = "easy" THEN <<6, 5, 5>> ELSE <<7, 6, 6, 7, 8>>

\* the levels played here ("hard" has seven challenges)
ChallengeLevels == {"easy", "medium"}

\* what calculate_progress can return, in tenths
ProgressValues == {0, 5, 6, 7, 8, 10}

\* ActionChallenge(...), as start_action_detection resets it
ActionChallenge(threshold) == [threshold |-> threshold, completed |-> FALSE, progress |-> 0]

\* a test that wants more than the threshold
reaches_strict(progress, threshold) == progress > threshold

\* challenge.progress >= challenge.threshold
reaches(progress, threshold) == progress >= threshold

\* start_action_detection: the challenge set of the level, the index, the
\* score, the flag
start_challenges(level) ==
    /\ ~is_detecting /\ challenges = <<>>
    /\ challenges' = [i \in 1..Len(challenge_sets(level)) |->
                         ActionChallenge(challenge_sets(level)[i])]
    /\ current_challenge_index' = 0
    /\ det_stats' = 0
    /\ is_detecting' = TRUE
    /\ Publish(DetMsg("started"), TRUE)
    /\ UNCHANGED <<connections, queues, npublished, last_broadcast, gvars, tvars,
                   player_gesture, http_result, ws_reply, jvars, wvars, det_kind, hg_current,
                   det_available, camera, cam_open, det_threads, det_thread, det_reply,
                   det_stopped, det_join>>

\* the events of a pass, handed to broadcast_threadsafe one after the other
PublishAll(events) ==
    /\ loop_set' = loop_set
    /\ tasks' = IF _ensure_loop(FALSE) THEN tasks \o events ELSE tasks
    /\ last_pub' = IF events = <<>> THEN last_pub ELSE events[Len(events)]

\* one pass of the loop with features and a baseline: the progress of the
\* current challenge, its completion, the next challenge or the end of the
\* game (_complete_game)
challenge_pass(progress) ==
    /\ is_detecting /\ TasksRoom
    /\ IF current_challenge_index >= Len(challenges) THEN
           /\ PublishAll(<<DetMsg("game_completed")>>)
           /\ is_detecting' = FALSE
           /\ UNCHANGED <<cvars, det_stats>>
       ELSE LET i == current_challenge_index + 1
                done == reaches(progress, challenges[i].threshold)
            IN /\ challenges' = [challenges EXCEPT ![i].progress = progress,
                                                   ![i].completed = done \/ @]
               /\ det_stats' = IF done THEN det_stats + progress * 10 ELSE det_stats
               /\ current_challenge_index' =
                      IF done THEN current_challenge_index + 1 ELSE current_challenge_index
               /\ is_detecting' = ~(done /\ i = Len(challenges))
               /\ PublishAll(IF ~done THEN <<>>
                             ELSE <<DetMsg("challenge_completed"),
                                    DetMsg(IF i < Len(challenges) THEN "next_challenge"
                                           ELSE "game_completed")>>)
    /\ UNCHANGED <<connections, queues, npublished, last_broadcast, gvars, tvars,
                   player_gesture, http_result, ws_reply, jvars, wvars, det_kind, hg_current,
                   det_available, camera, cam_open, det_threads, det_thread, det_reply,
                   det_stopped, det_join>>

InitChallenge ==
    /\ InitRest /\ ws_path = "rps" /\ jg1 = None /\ jg2 = None
    /\ det_kind = "action" /\ det_available = TRUE

NextChallenge ==
    \/ RunBroadcast
    \/ \E level \in ChallengeLevels : start_challenges(level)
    \/ \E progress \in ProgressValues : challenge_pass(progress)

SpecChallenge == InitChallenge /\ [][NextChallenge]_vars

\* start called by a client, while fewer than MaxSessions threads were created
StartSession ==
    \E opened \in BOOLEAN, websocket_mode \in BOOLEAN :
        /\ is_detecting \/ Len(det_threads) < MaxSessions
        /\ det_kind # "drawing" => ~websocket_mode
        /\ start_detection(opened, websocket_mode)

\* the sessions of a detection service that its clients start, stop and
\* start again
NextRedetect ==
    \/ RunBroadcast
    \/ StartSession
    \/ start_drawing_flag
    \/ stop_detection_begin
    \/ stop_detection_camera
    \/ stop_detection_release
    \/ stop_detection_none
    \/ stop_detection_end
    \/ \E t \in DetThreadIds : DetWorker(t)

SpecRedetect == InitDetect /\ [][NextRedetect]_vars

---------------------------------------------------------------------------
(* The game worker reading the gestures that the gesture service recognises *)

\* the gestures and confidences MediaPipe reports to the callback
CallbackGestures == {UNKNOWN, ROCK, PAPER}
CallbackConfidences == {5, 8}

\* HandGestureDetector._result_callback: a gesture above 0.5 is counted and
\* stored with its confidence, anything else leaves the stored one; game,
\* round and window say when it was stored
_result_callback(gesture, confidence) ==
    /\ is_detecting /\ det_kind = "gesture"
    /\ IF gesture # UNKNOWN /\ confidence > 5 THEN
           /\ det_stats < MaxDetections
           /\ det_stats' = det_stats + 1
           /\ hg_current' = [gesture |-> gesture, confidence |-> confidence,
                             game |-> game_thread, round |-> current_round,
                             window |-> game_state = ROUND_GESTURE_CAPTURE]
       ELSE UNCHANGED <<det_stats, hg_current>>
    /\ UNCHANGED <<bvars, gvars, tvars, ovars, jvars, wvars, det_kind, cvars, det_available,
                   is_detecting, camera, cam_open, det_threads, det_thread, det_reply,
                   det_stopped, det_join>>

\* _game_loop with the polling loop reading the gesture service
WorkerReading(t) ==
    \/ loop_while(t) \/ loop_check(t) \/ _start_new_round(t) \/ countdown(t)
    \/ countdown_sleep(t) \/ _wait_for_gestures(t) \/ poll_current(t) \/ capture_done(t)
    \/ _process_round_result(t) \/ result_sleep(t) \/ loop_except(t)
    \/ _finish_game(t) \/ finish_sleep(t)

\* a game against the AI while the gesture service detects
NextCapture ==
    \/ RunBroadcast
    \/ StartGame(MaxThreads)
    \/ det_threads = <<>> /\ StartDetection
    \/ \E t \in ThreadIds : WorkerReading(t)
    \/ \E t \in DetThreadIds : DetWorker(t)
    \/ \E gesture \in CallbackGestures, confidence \in CallbackConfidences :
          _result_callback(gesture, confidence)

SpecCapture == Init /\ [][NextCapture]_vars

---------------------------------------------------------------------------
(* /ws/drawing: websocket_drawing_gesture and the drawing sessions it starts
   in websocket mode (no camera, no thread) *)

\* the drawing service as the handler sees it while it handles one message:
\* the flag, the events published so far, the status of the last reply and
\* whether that reply said that a session is already running
DrawState == [is_drawing |-> is_detecting, events |-> <<>>, status |-> "none", busy |-> FALSE]

\* start_drawing_session(websocket_mode=True)
ws_start_drawing_session(s) ==
    IF ~det_available THEN [s EXCEPT !.status = "error", !.busy = FALSE]
    ELSE IF s.is_drawing THEN [s EXCEPT !.status = "error", !.busy = TRUE]
    ELSE [is_drawing |-> TRUE, events |-> Append(s.events, DetMsg("started")),
          status |-> "started", busy |-> FALSE]

\* stop_drawing_session() of a session without camera and thread
ws_stop_drawing_session(s) ==
    IF ~s.is_drawing THEN [s EXCEPT !.status = "idle", !.busy = FALSE]
    ELSE [is_drawing |-> FALSE, events |-> Append(s.events, DetMsg("stopped")),
          status |-> "stopped", busy |-> FALSE]

\* what the handler leaves in the service and in the broadcaster, the loop
\* being the caller of broadcast_threadsafe
DrawApply(s) ==
    /\ is_detecting' = s.is_drawing
    /\ det_reply' = IF s.status = "none" THEN det_reply ELSE s.status
    /\ det_stats' = IF s.status = "started" THEN 0 ELSE det_stats
    /\ det_stopped' = det_stopped
    /\ loop_set' = (loop_set \/ s.events # <<>>)
    /\ tasks' = tasks \o s.events
    /\ last_pub' = IF s.events = <<>> THEN last_pub ELSE s.events[Len(s.events)]

\* what no step of the handler changes
DrawRest == <<connections, queues, npublished, last_broadcast, gvars, tvars, player_gesture,
              http_result, jvars, ws_path, ws_inbox, ws_handled, ws_queue, ws_sends,
              ws_fwd, det_kind, cvars, hg_current, det_available, camera, cam_open, det_threads,
              det_thread, det_join>>

\* accept() and the "opened" message of a new connection
DrawConnect ==
    /\ LoopFree /\ ws_state \in {"none", "closed"}
    /\ ws_state' = "open"
    /\ gesture_session_active' = FALSE
    /\ ws_reply' = [type |-> "opened"]
    /\ DrawApply(DrawState)
    /\ UNCHANGED DrawRest

\* the message types of the clients that touch the session
DrawTypes == {"start_gesture_drawing", "stop_drawing", "close", "ping"}

\* an except clause that stops the session of the connection
except_stopping(s) == IF gesture_session_active THEN ws_stop_drawing_session(s) ELSE s

\* except Exception: the error message is tried, nothing else
except_Exception(s) == s

\* one message of the client, handled to its end
DrawMessage(type) ==
    /\ LoopFree /\ TasksRoom /\ ws_state = "open"
    /\ CASE type = "start_gesture_drawing" ->
              LET s1 == IF gesture_session_active THEN ws_stop_drawing_session(DrawState)
                        ELSE DrawState
                  s2 == ws_start_drawing_session(s1)
                  s3 == IF s2.status = "error" /\ s2.busy
                        THEN ws_start_drawing_session(ws_stop_drawing_session(s2))
                        ELSE s2
              IN /\ DrawApply(s3)
                 /\ gesture_session_active' = (s3.status # "error")
                 /\ ws_reply' = IF s3.status = "error" THEN WsError("start")
                                ELSE [type |-> "drawing_started"]
                 /\ UNCHANGED ws_state
         [] type = "stop_drawing" ->
              /\ DrawApply(IF gesture_session_active THEN ws_stop_drawing_session(DrawState)
                           ELSE DrawState)
              /\ gesture_session_active' = FALSE
              /\ ws_reply' = IF gesture_session_active THEN [type |-> "drawing_stopped"]
                             ELSE WsError("session")
              /\ UNCHANGED ws_state
         [] type = "close" ->
              /\ DrawApply(IF gesture_session_active THEN ws_stop_drawing_session(DrawState)
                           ELSE DrawState)
              /\ gesture_session_active' = FALSE
              /\ ws_reply' = [type |-> "closed"]
              /\ ws_state' = "closed"
         [] OTHER ->
              /\ DrawApply(DrawState)
              /\ ws_reply' = [type |-> "pong"]
              /\ UNCHANGED <<ws_state, gesture_session_active>>
    /\ UNCHANGED DrawRest

\* receive_json raises WebSocketDisconnect: the client is gone
DrawDisconnect ==
    /\ LoopFree /\ TasksRoom /\ ws_state = "open"
    /\ DrawApply(IF gesture_session_active THEN ws_stop_drawing_session(DrawState)
                 ELSE DrawState)
    /\ ws_state' = "closed"
    /\ UNCHANGED <<gesture_session_active, ws_reply, DrawRest>>

\* receive_json raises another exception: a frame that is not JSON text
DrawRaise ==
    /\ LoopFree /\ TasksRoom /\ ws_state = "open"
    /\ DrawApply(except_Exception(DrawState))
    /\ ws_reply' = WsError("WebSocket error")
    /\ ws_state' = "closed"
    /\ UNCHANGED <<gesture_session_active, DrawRest>>

InitDrawing ==
    /\ InitRest /\ ws_path = "drawing" /\ jg1 = None /\ jg2 = None
    /\ det_kind = "drawing" /\ det_available \in BOOLEAN

\* the connections to /ws/drawing, one after the other
NextDrawing ==
    \/ RunBroadcast
    \/ Register
    \/ DrawConnect
    \/ \E type \in DrawTypes : DrawMessage(type)
    \/ DrawDisconnect
    \/ DrawRaise

SpecDrawing == InitDrawing /\ [][NextDrawing]_vars

\* one session of a detection service that no client stops
NextSession ==
    \/ RunBroadcast
    \/ det_threads = <<>> /\ StartDetection
    \/ \E t \in DetThreadIds : DetWorker(t)

\* the detection thread and the loop are scheduled
FairSession ==
    /\ \A t \in 1..MaxDetThreads : WF_vars(t \in DetThreadIds /\ DetWorker(t))
    /\ WF_vars(RunBroadcast)

SpecSession == InitDetect /\ [][NextSession]_vars /\ FairSession

\* the messages of the client of /ws/rps: it controls the first game of the
\* server, pings at any time and sends its other messages while no game runs
WsInbound ==
    \/ WsPing
    \/ \E decodable \in BOOLEAN : game_state = IDLE /\ WsOpen /\ WsFrame(decodable, ROCK, 7)
    \/ game_state = IDLE /\ WsOpen /\ WsNoGesture
    \/ game_state = IDLE /\ WsControlUnknown
    \/ game_state = IDLE /\ WsUnknownType
    \/ game_state = IDLE /\ WsMalformed
    \/ \E value \in WsTargetScores :
          /\ game_state # IDLE \/ value \notin RPSGameMode \/ threads = <<>>
          /\ WsControlStart(value)
    \/ WsControlStop
    \/ WsControlStopEnd

\* a connection to /ws/rps, its client and the game the client controls
NextConn ==
    \/ RunBroadcast
    \/ WsConnect
    \/ WsInbound
    \/ \E t \in ThreadIds : Worker(t)

SpecConn == Init /\ [][NextConn]_vars


\* a connection to /ws/rps whose client starts the first game of the server
\* and is sent the events of the broadcaster
NextForward ==
    \/ RunBroadcast
    \/ WsConnect
    \/ \E value \in WsTargetScores :
          /\ game_state # IDLE \/ value \notin RPSGameMode \/ threads = <<>>
          /\ WsControlStart(value)
    \/ WsForward
    \/ \E t \in ThreadIds : Worker(t)

SpecForward == Init /\ [][NextForward]_vars

\* one connection to one of the stream endpoints, with the detection service
\* whose events the endpoint forwards (the gesture service for /ws/rps, which
\* forwards none of them)
InitStreams ==
    /\ InitRest /\ jg1 = None /\ jg2 = None
    /\ ws_path \in WsPaths
    /\ det_kind = (IF ws_path = "action" THEN "action" ELSE "gesture")
    /\ det_available = TRUE

\* the connection until its handler has returned, the client that leaves and
\* the first session of the detection service, which publishes until it ends
NextStreams ==
    \/ RunBroadcast
    \/ WsConnect
    \/ ws_path = "rps" /\ WsPing
    \/ WsForward
    \/ WsForwardFails
    \/ \E detected \in BOOLEAN : WsDisconnect(detected)
    \/ WsAbort
    \/ WsFinally
    \/ det_threads = <<>> /\ StartDetection
    \/ \E t \in DetThreadIds : DetWorker(t)

SpecStreams == InitStreams /\ [][NextStreams]_vars

---------------------------------------------------------------------------
(* The merge loop of websocket_rps: each pass creates a task for the next
   client message and a task for the next broadcast event, waits until one
   of them is done and processes every task that is done *)

MergeSources == {"receive", "broadcast"}

\* the client messages of the merge loop that leave the game alone
MergeTypes == {"ping", "unknown"}

\* the events the publishers broadcast while the connection is served
MergeEvents == {Msg("rps_game", "countdown", 0), Msg("rps", "countdown", 0)}

\* a client message reaches the server while the handler is busy or waiting
WsArrive(type) ==
    /\ ws_state = "open" /\ Len(ws_inbox) < MaxInbox
    /\ ws_inbox' = Append(ws_inbox, type)
    /\ UNCHANGED <<bvars, gvars, tvars, ovars, jvars, ws_path, ws_handled, gesture_session_active, ws_state,
                   ws_queue, ws_sends, ws_fwd, dvars>>

\* a publisher on the loop awaits broadcast(event)
PublishEvent(event) ==
    /\ LoopFree /\ ws_state = "open"
    /\ broadcast(event)
    /\ UNCHANGED <<loop_set, tasks, npublished, gvars, tvars, ovars, jvars, wvars, dvars>>

\* a wait that hands back the receive task alone whenever that task is done
DonePreferReceive(receive_ready, broadcast_ready) ==
    IF receive_ready THEN {{"receive"}}
    ELSE IF broadcast_ready THEN {{"broadcast"}} ELSE {}

\* asyncio.wait(..., return_when=FIRST_COMPLETED): the sets `done` it can
\* return, given which of the two sources has something to deliver. It
\* returns once a task is done, with every task that is done by then
Done(receive_ready, broadcast_ready) ==
    {done \in SUBSET MergeSources :
        /\ done # {}
        /\ "receive" \in done => receive_ready
        /\ "broadcast" \in done => broadcast_ready}

\* a cancellation that takes the next message of the source with it
cancel_consuming(waiting) == IF waiting = <<>> THEN waiting ELSE Tail(waiting)

\* task.cancel(); await task, for a task in `pending`: the await that lost
\* the race has returned nothing and has taken nothing from its source
cancel(waiting) == waiting

\* what the handler sends for a client message of the merge loop
MergeReply(type) == IF type = "ping" THEN [type |-> "pong"] ELSE WsError("type")

\* one pass of the loop: the pending task is cancelled and every task in
\* `done` is processed
WsMerge(done) ==
    /\ WsOpen /\ ws_path = "rps" /\ ws_queue # 0
    /\ done \in Done(ws_inbox # <<>>, queues[ws_queue] # <<>>)
    /\ ws_inbox' = IF "receive" \in done THEN Tail(ws_inbox) ELSE cancel(ws_inbox)
    /\ ws_reply' = IF "receive" \in done THEN MergeReply(Head(ws_inbox)) ELSE ws_reply
    /\ queues' = [queues EXCEPT ![ws_queue] =
                     IF "broadcast" \in done THEN Tail(@) ELSE cancel(@)]
    /\ ws_fwd' = IF "broadcast" \in done
                    /\ Head(queues[ws_queue]).channel = WsChannel(ws_path)
                 THEN Retag(ws_path, Head(queues[ws_queue])) ELSE ws_fwd
    /\ ws_sends' = (IF "receive" \in done THEN 1 ELSE 0)
                   + (IF "broadcast" \in done
                         /\ Head(queues[ws_queue]).channel = WsChannel(ws_path)
                      THEN 1 ELSE 0)
    /\ ws_handled' = [source \in MergeSources |->
                         IF source \in done THEN 1 - ws_handled[source]
                         ELSE ws_handled[source]]
    /\ UNCHANGED <<loop_set, connections, tasks, npublished, last_broadcast, gvars, tvars,
                   player_gesture, http_result, last_pub, jvars, ws_path, ws_state,
                   gesture_session_active, ws_queue, dvars>>

\* the loop processes a task of the source in this pass
Serves(source) ==
    \E done \in SUBSET MergeSources : source \in done /\ WsMerge(done)

NextMerge ==
    \/ WsConnect
    \/ WsArrive("ping")
    \/ \E event \in MergeEvents : PublishEvent(event)
    \/ \E source \in MergeSources : Serves(source)

\* the event loop runs every task it was given: a task created by the merge
\* loop whose source has something to deliver gets done
FairMerge == \A source \in MergeSources : WF_vars(Serves(source))

SpecMerge == Init /\ [][NextMerge]_vars /\ FairMerge

\* a publisher on the loop awaits broadcast of the next game event, numbered
PublishNumbered ==
    /\ LoopFree /\ ws_state = "open" /\ npublished < MaxPublish
    /\ broadcast(Msg("rps_game", "countdown", npublished + 1))
    /\ npublished' = npublished + 1
    /\ UNCHANGED <<loop_set, tasks, gvars, tvars, ovars, jvars, wvars, dvars>>

\* the merge loop fed with numbered events and typed client messages
NextOrder ==
    \/ WsConnect
    \/ \E type \in MergeTypes : WsArrive(type)
    \/ PublishNumbered
    \/ \E done \in SUBSET MergeSources : WsMerge(done)

SpecOrder == Init /\ [][NextOrder]_vars

\* the game service next to a HandGestureService, its source of gestures,
\* whose recognizer is available or not
InitUnavailable ==
    /\ InitRest /\ ws_path = "rps" /\ jg1 = None /\ jg2 = None
    /\ det_kind = "gesture" /\ det_available \in BOOLEAN

SpecUnavailable == InitUnavailable /\ [][Next]_vars


---------------------------------------------------------------------------
(* StatusBroadcaster: properties *)

\* the messages of the broadcast() bodies that run in the step
Delivered == IF last_broadcast' # last_broadcast THEN {last_broadcast'.message} ELSE {}

\* the numbers of the messages in a queue
Numbers(queue) == {queue[i].data : i \in 1..Len(queue)}

\* C1: a broadcast that finds a registered queue full removes that queue from
\* the registered set, and still appends its message to every other registered
\* queue that has room, which stays registered.
C1_Isolation ==
    [][\A m \in Delivered : \A q \in connections :
         /\ QueueFull(queues[q]) => q \notin connections'
         /\ ~QueueFull(queues[q]) =>
                /\ queues'[q] = Append(queues[q], m)
                /\ q \in connections']_vars

\* a broadcast has just dropped a full queue and another registered queue ends
\* with the message the dropped queue did not get
C1_Witness ==
    \E q \in last_broadcast.dead : \E r \in connections :
        /\ Len(queues[q]) = MaxQueueSize
        /\ queues[r] # <<>>
        /\ queues[r][Len(queues[r])].data \notin Numbers(queues[q])
        /\ \A n \in Numbers(queues[q]) : n < queues[r][Len(queues[r])].data

\* C2: a broadcast appends its message exactly once at the tail of every queue
\* that is registered and not full, leaves every other queue as it was, and a
\* scheduled broadcast can always run once the loop is free, whatever the
\* queues hold.
C2_Publish ==
    /\ [](LoopFree /\ tasks # <<>> => ENABLED RunBroadcast)
    /\ [][\A m \in Delivered : \A q \in QueueIds :
            queues'[q] = IF q \in connections /\ ~QueueFull(queues[q])
                         THEN Append(queues[q], m)
                         ELSE queues[q]]_vars

\* one broadcast has reached a registered queue behind an older message while
\* an unregistered queue and a full queue exist
C2_Witness ==
    \E q \in connections : \E r \in QueueIds \ connections :
        /\ Len(queues[q]) = 2
        /\ queues[q][1].data < queues[q][2].data
        /\ queues[q][2].data \notin Numbers(queues[r])

\* C3: any two messages that two queues both hold are in the same order in
\* both, whichever thread published them.
C3_SameOrder ==
    \A q, r \in QueueIds :
        \A i, j \in 1..Len(queues[q]) : \A k, l \in 1..Len(queues[r]) :
            (i < j /\ queues[q][i] = queues[r][k] /\ queues[q][j] = queues[r][l])
                => k < l

\* two queues both hold one message published on the loop thread and one
\* published from another thread
C3_Witness ==
    \E q, r \in connections :
        /\ q # r
        /\ Len(queues[q]) = 2 /\ queues[q] = queues[r]
        /\ {queues[q][1].stage, queues[q][2].stage} = {"loop", "thread"}

---------------------------------------------------------------------------
(* RPSGameService: properties *)

\* C4: a start_game called while the game is not IDLE answers with an error
\* and changes neither the game state, the round, the players and their
\* scores, the target score nor the worker threads.
C4_StartRejected ==
    [][\A mode \in Modes, difficulty \in Difficulties, ts \in TargetScores :
          (game_state # IDLE /\ start_game(mode, difficulty, ts))
              => (http_result' = "error" /\ UNCHANGED <<gvars, threads>>)]_vars

\* a start_game was rejected while the game waits for its first round
C4_Witness ==
    /\ http_result = "error"
    /\ game_state = WAITING_FOR_PLAYERS
    /\ game_thread # 0 /\ Alive(game_thread)

\* stop_game has returned and no other call has been made since
StopReturned == http_result = "stopped" /\ loop_pc = "idle"

\* C5: once stop_game has returned, the game state is IDLE and stays IDLE:
\* the worker thread sets no other state.
C5_StopLeavesIdle == StopReturned => game_state = IDLE

\* C6: the worker thread of a stopped game takes no step that writes the game
\* state, the round counter, the players or publishes an event once a new game
\* was started.
C6_OldWorkerSilent ==
    [][\A t \in ThreadIds :
          (t # game_thread /\ threads'[t] # threads[t])
              => UNCHANGED <<game_state, current_round, players, round_history,
                             last_pub>>]_vars

\* the game was started and stop_game has not been called since
Undisturbed == http_result = "started" /\ loop_pc = "idle"

\* C7: when the capture time of a round is over in a game that nobody tried
\* to stop, and no gesture of the player was captured, the player's gesture
\* is still empty or unknown, and it loses against the gesture of the opponent.
C7_NoFabrication ==
    \A t \in ThreadIds :
        (threads[t].pc = "result" /\ ~threads[t].captured /\ Undisturbed) =>
            /\ players["player1"].current_gesture \in {None, UNKNOWN}
            /\ "ai" \in DOMAIN players =>
                   _determine_winner(players["player1"].current_gesture,
                                     players["ai"].current_gesture) = LOSE

---------------------------------------------------------------------------
(* _determine_winner: properties *)

\* the judging function has been applied to the pair <<jg1, jg2>>
Judged == jresult # "none"

\* C8: on the nine pairs of rock, paper and scissors the result is WIN when
\* the first gesture beats the second (rock beats scissors, paper beats rock,
\* scissors beats paper), DRAW when they are equal, and LOSE otherwise.
C8_JudgeTable ==
    (Judged /\ jg1 \in Playable /\ jg2 \in Playable) =>
        jresult = CASE jg1 = ROCK /\ jg2 = ROCK -> DRAW
                    [] jg1 = ROCK /\ jg2 = PAPER -> LOSE
                    [] jg1 = ROCK /\ jg2 = SCISSORS -> WIN
                    [] jg1 = PAPER /\ jg2 = ROCK -> WIN
                    [] jg1 = PAPER /\ jg2 = PAPER -> DRAW
                    [] jg1 = PAPER /\ jg2 = SCISSORS -> LOSE
                    [] jg1 = SCISSORS /\ jg2 = ROCK -> LOSE
                    [] jg1 = SCISSORS /\ jg2 = PAPER -> WIN
                    [] jg1 = SCISSORS /\ jg2 = SCISSORS -> DRAW

\* scissors were judged against paper, and won
C8_Witness == Judged /\ jg1 = SCISSORS /\ jg2 = PAPER /\ jresult = WIN

\* C9: an empty or unknown gesture of the player loses against rock, paper,
\* scissors and unknown.
C9_UnknownLoses ==
    (Judged /\ jg1 \in {None, UNKNOWN} /\ jg2 \in HandGestureType) => jresult = LOSE

---------------------------------------------------------------------------
(* /ws/rps: properties *)

\* C10: a decodable frame with a playable gesture of confidence above 0.6,
\* processed while the machine waits for the player, records its gesture only
\* if none is recorded yet; otherwise the recorded gesture stays, the game
\* state is unchanged, and the frame is still answered with its recognition
\* result.
C10_FirstWriterWins ==
    [][\A gesture \in Playable, confidence \in Confidences :
          (confidence > 6 /\ game_state = WAITING_PLAYER
              /\ WsFrame(TRUE, gesture, confidence))
          => /\ player_gesture' = IF player_gesture = None THEN gesture
                                  ELSE player_gesture
             /\ UNCHANGED gvars
             /\ ws_reply' = WsReply("recognition_result", gesture, confidence, TRUE)]_vars

\* a second frame, paper, was answered while rock, the first, remains recorded
C10_Witness ==
    /\ game_state = WAITING_PLAYER
    /\ player_gesture = ROCK
    /\ ws_reply = WsReply("recognition_result", PAPER, 7, TRUE)

\* C11: a no_gesture_detected message writes the unknown marker into the
\* player's gesture only if the machine waits for the player and no gesture is
\* recorded yet in the round; a gesture already recorded stays as it is.
C11_NoGestureKeepsRecorded ==
    [][WsNoGesture
          => player_gesture' = IF game_state = WAITING_PLAYER /\ player_gesture = None
                               THEN UNKNOWN ELSE player_gesture]_vars

\* an input of the player: a frame, a no_gesture_detected message or a submission
PlayerInput ==
    \/ \E decodable \in BOOLEAN, gesture \in HandGestureType, confidence \in Confidences :
          WsFrame(decodable, gesture, confidence)
    \/ WsNoGesture
    \/ \E gesture \in HandGestureType : submit_player_gesture(gesture)

\* C12: an input handled while the machine does not wait for the player (IDLE,
\* COUNTDOWN, RESULT, FINISHED) changes neither the player's gesture nor the
\* scores, the round number or the game state.
C12_InputOutsideWindow ==
    [][(game_state # WAITING_PLAYER /\ PlayerInput)
          => UNCHANGED <<player_gesture, gvars>>]_vars

\* a valid rock frame was answered before the first input window opened, and
\* no gesture is recorded
C12_Witness ==
    /\ game_state = ROUND_COUNTDOWN
    /\ current_round = 0
    /\ player_gesture = None
    /\ ws_reply = WsReply("recognition_result", ROCK, 7, TRUE)

---------------------------------------------------------------------------
(* Start and stop of the game and of the detection services: properties *)

\* C13: a start of the game, or of a detection service, while the recognizer
\* reports unavailable returns an error, leaves the service idle and starts
\* neither a worker thread nor a capture.
C13_StartUnavailable ==
    [][\A mode \in Modes, difficulty \in Difficulties, ts \in TargetScores :
          (~det_available /\ start_game(mode, difficulty, ts))
          => (http_result' = "error" /\ UNCHANGED <<game_state, threads>>)]_vars

\* C14: when start_game succeeds, the game is in COUNTDOWN when it returns,
\* target_score is the requested value and exactly one worker thread was
\* created.
C14_StartEntersCountdown ==
    [][\A mode \in Modes, difficulty \in Difficulties, ts \in TargetScores :
          (start_game(mode, difficulty, ts) /\ http_result' = "started")
          => /\ game_state' = ROUND_COUNTDOWN
             /\ target_score' = ts
             /\ Len(threads') = Len(threads) + 1]_vars

\* C15: a start of a detection service that is already running returns an
\* error and changes nothing: the running flag, the session statistics, the
\* capture and the existing loop thread stay, and no second thread is spawned.
C15_StartWhileRunning ==
    [][\A opened \in BOOLEAN, websocket_mode \in BOOLEAN :
          (is_detecting /\ start_detection(opened, websocket_mode))
          => /\ det_reply' = "error"
             /\ UNCHANGED <<is_detecting, det_stats, camera, cam_open, det_threads,
                            det_thread>>]_vars

\* a running service with a counted detection, its capture open and its one
\* loop thread alive has just answered a start with an error
C15_Witness ==
    /\ is_detecting /\ det_available
    /\ det_reply = "error"
    /\ det_stats = 1
    /\ camera = "capture" /\ cam_open
    /\ Len(det_threads) = 1 /\ DetAlive(1)

\* C16: a stop of the game while it is idle returns the 'idle' acknowledgement,
\* publishes no event and changes no state; so does a second stop called after
\* a stop has returned.
C16_StopIdleNoOp ==
    [][((game_state = IDLE \/ StopReturned) /\ stop_game_begin)
          => /\ http_result' = "idle"
             /\ UNCHANGED <<bvars, gvars, tvars, last_pub>>]_vars

---------------------------------------------------------------------------
(* The /ws/rps connection: properties *)

\* the handler step sent one message of this type and is back in its loop
Replied(type) == ws_reply'.type = type /\ ws_sends' = 1 /\ ws_state' = "open"

C19_Unregistered ==
    [][/\ ws_state' = "closed" => ws_queue' \notin connections'
       /\ ws_state' = "closed" => ws_state \in {"exiting", "closed"}
       /\ ws_state \in {"exiting", "closed"}
              => /\ UNCHANGED <<ws_reply, ws_fwd, ws_sends, player_gesture>>
                 /\ Len(queues'[ws_queue]) >= Len(queues[ws_queue])
                 /\ ws_state' \in {ws_state, "closed"}]_vars

\* the handler of /ws/gesture forwarded an event, failed to send the next one
\* and returned: its queue still holds an event and is not registered
C19_Witness ==
    /\ ws_path = "gesture" /\ ws_state = "closed"
    /\ ws_fwd.stage = "started"
    /\ ws_queue \notin connections
    /\ queues[ws_queue] # <<>>


\* C20: every event of the game that the handler of a subscribed /ws/rps
\* connection takes off its queue is sent to the client as a message of type
\* game_state with the stage and data of the event.
C20_GameEventsForwarded ==
    [][(WsForward /\ Head(queues[ws_queue]).channel = RpsMsg("none", 0).channel)
          => /\ ws_sends' = 1
             /\ ws_fwd' = Retag("rps", Head(queues[ws_queue]))]_vars


---------------------------------------------------------------------------
(* The broadcaster and the game machine: further properties *)

\* C21: unregistering a queue that is not in the registered set (never
\* registered, unregistered before, or dropped by a broadcast that found it
\* full) changes neither the registered set nor any queue, and nothing else.
C21_UnregisterIdempotent ==
    [][\A q \in UnregisterArgs :
           (q \notin connections /\ Unregister(q)) => UNCHANGED vars]_vars

\* a queue that holds messages and is no longer registered, dropped by the
\* last broadcast for being full: unregister can be called on it again
C21_Witness ==
    \E q \in QueueIds :
        /\ q \notin connections /\ QueueFull(queues[q])
        /\ q \in last_broadcast.dead
        /\ LoopFree /\ ENABLED Unregister(q)


\* the messages that wait for the loop or lie in a queue
Pending == {tasks[i] : i \in 1..Len(tasks)}
               \cup UNION {{queues[q][i] : i \in 1..Len(queues[q])} : q \in QueueIds}

\* C22: broadcast_sync / broadcast_threadsafe called from a thread while the
\* broadcaster knows no loop returns at once: it schedules nothing, changes
\* no queue and not the registered set, and still knows no loop. The event is
\* lost for good: whatever enters a queue or the loop's schedule later is the
\* event published in that very step, never an earlier one.
C22_LostWithoutLoop ==
    [][/\ (~loop_set /\ PublishSync(FALSE))
              => /\ UNCHANGED <<tasks, queues, connections, last_broadcast>>
                 /\ ~loop_set'
                 /\ npublished' = npublished + 1
       /\ \A message \in Pending' \ Pending :
              /\ npublished' = npublished + 1
              /\ message.data = npublished'
              /\ ~loop_set => message.stage # "thread"]_vars

\* the first message was delivered to the subscriber, the second was
\* published from a thread without a loop: the subscriber, whose queue has
\* room, did not get it and nothing is scheduled
C22_Witness ==
    /\ ~loop_set /\ npublished = 2
    /\ connections = {1} /\ tasks = <<>>
    /\ queues[1] = <<Msg("test", "direct", 1)>>


\* the transitions of the round state machine, in the states of RPSGameState:
\* start, countdown, capture (the input window), result, next round or
\* finish, back to idle, and from every state but IDLE to IDLE
Transitions ==
    {<<IDLE, WAITING_FOR_PLAYERS>>, <<WAITING_FOR_PLAYERS, ROUND_COUNTDOWN>>,
     <<ROUND_COUNTDOWN, ROUND_GESTURE_CAPTURE>>, <<ROUND_GESTURE_CAPTURE, ROUND_RESULT>>,
     <<ROUND_RESULT, ROUND_COUNTDOWN>>, <<ROUND_RESULT, GAME_FINISHED>>,
     <<GAME_FINISHED, IDLE>>}
        \cup {<<state, IDLE>> : state \in RPSGameState \ {IDLE}}

\* C23: every change of the game state is one of the allowed transitions,
\* and the state leaves IDLE only in a start_game that succeeds, never in a
\* step of the worker thread.
C23_AllowedTransitions ==
    [][game_state' # game_state
          => /\ <<game_state, game_state'>> \in Transitions
             /\ game_state = IDLE
                    => http_result' = "started" /\ Len(threads') = Len(threads) + 1]_vars


\* the events of the rounds of a game
RoundStages == {"countdown", "gesture_capture", "round_result", "game_finished"}

\* C24: once stop_game has published its game_stopped event and returned,
\* the worker of the stopped game publishes no countdown, gesture_capture,
\* round_result or game_finished event.
C24_SilentAfterStop ==
    [][(StopReturned /\ last_pub' # last_pub) => last_pub'.stage \notin RoundStages]_vars


\* C25: in a game that is not stopped, every round publishes exactly three
\* countdown events, 3, 2 and 1 in this order, after its round_start; the
\* gesture_capture event of the round follows the tick 1 and nothing else,
\* and the round_result follows the gesture_capture of the round.
C25_CountdownOrder ==
    [][last_pub' # last_pub
          => /\ last_pub'.stage = "countdown"
                    => /\ last_pub'.data \in 1..3
                       /\ IF last_pub'.data = 3
                          THEN last_pub = RpsMsg("round_start", current_round)
                          ELSE last_pub = RpsMsg("countdown", last_pub'.data + 1)
             /\ last_pub.stage = "round_start" => last_pub' = RpsMsg("countdown", 3)
             /\ (last_pub.stage = "countdown" /\ last_pub.data > 1)
                    => last_pub' = RpsMsg("countdown", last_pub.data - 1)
             /\ last_pub = RpsMsg("countdown", 1) => last_pub'.stage = "gesture_capture"
             /\ last_pub'.stage = "gesture_capture" => last_pub = RpsMsg("countdown", 1)
             /\ last_pub'.stage = "round_result"
                    => last_pub.stage = "gesture_capture" /\ last_pub'.data = current_round]_vars

\* the second round of a game has published its result
C25_Witness ==
    /\ last_pub = RpsMsg("round_result", 2)
    /\ current_round = 2 /\ game_state = ROUND_RESULT


\* the score of a player has reached the target of the game
ScoreReached == \E pid \in DOMAIN players : players[pid].score >= target_score

\* the result of the current round has been computed and recorded
RoundJudged == game_state = ROUND_RESULT /\ Len(round_history) = current_round

\* C26: in a game that is not stopped, the state that follows the result of
\* a round is ROUND_COUNTDOWN of the next round if no score has reached
\* target_score and GAME_FINISHED if one has; a round starts only while no
\* score has reached the target, and GAME_FINISHED is followed by IDLE, not
\* by another round.
C26_NextRoundOrFinish ==
    [][/\ (RoundJudged /\ game_state' # game_state)
              => IF ScoreReached
                 THEN game_state' = GAME_FINISHED /\ current_round' = current_round
                 ELSE game_state' = ROUND_COUNTDOWN /\ current_round' = current_round + 1
       /\ current_round' > current_round => ~ScoreReached
       /\ game_state' = GAME_FINISHED => ScoreReached
       /\ (game_state = GAME_FINISHED /\ game_state' # game_state)
              => game_state' = IDLE /\ current_round' = current_round]_vars

\* a game with target_score 1: the first round was drawn and followed by a
\* second round, which was won and followed by GAME_FINISHED
C26_Witness ==
    /\ target_score = 1 /\ game_state = GAME_FINISHED
    /\ current_round = 2
    /\ round_history[1] = DRAW /\ round_history[2] # DRAW


\* a game has ended through _finish_game: the machine is idle and the last
\* event it published is the final summary
Finished == game_state = IDLE /\ last_pub.stage = "game_finished"

\* C27: in a game that is not stopped, once a score has reached target_score
\* the machine publishes the game_finished event and reaches IDLE; the event
\* is published once, at the entry into GAME_FINISHED, and a start_game with
\* valid parameters that follows succeeds.
C27_FinishAndRestart ==
    /\ (ScoreReached /\ game_state # IDLE) ~> Finished
    /\ [][/\ (last_pub'.stage = "game_finished" /\ last_pub' # last_pub)
                 => /\ ScoreReached
                    /\ game_state # GAME_FINISHED /\ game_state' = GAME_FINISHED
          /\ game_state = GAME_FINISHED => last_pub' = last_pub
          /\ \A mode \in RPSGameMode, ts \in 1..MaxTarget :
                 (Finished /\ start_game(mode, "medium", ts))
                     => /\ http_result' = "started"
                        /\ game_state' = WAITING_FOR_PLAYERS
                        /\ game_thread' = Len(threads) + 1]_vars

\* a second game was started after the first had ended, and has finished too
C27_Witness ==
    /\ Len(threads) = 2 /\ threads[1].pc = "done" /\ threads[2].pc = "done"
    /\ Finished /\ ScoreReached


\* C28: every change of the game state publishes exactly one event on the
\* game's channel: the step that changes game_state is a step that publishes.
C28_OneEventPerTransition ==
    [][game_state' # game_state => last_pub' # last_pub]_vars


\* the slots of the players: no gesture recorded
SlotsEmpty(ps) ==
    \A pid \in DOMAIN ps : ps[pid].current_gesture = None /\ ~ps[pid].gesture_ready

C30_NoStarvation ==
    /\ \A event \in MergeEvents, n \in {0, 1} :
           (/\ ws_state = "open" /\ queues[ws_queue] # <<>>
            /\ Head(queues[ws_queue]) = event /\ ws_handled["broadcast"] = n)
               ~> (/\ ws_handled["broadcast"] = 1 - n
                   /\ event.channel = "rps_game" => ws_fwd = Retag("rps", event))
    /\ \A n \in {0, 1} :
           (ws_inbox # <<>> /\ ws_handled["receive"] = n) ~> (ws_handled["receive"] = 1 - n)

\* one pass has processed a client message and an event together, while
\* more of both wait
C30_Witness ==
    /\ ws_state = "open" /\ ws_sends = 2
    /\ ws_reply = [type |-> "pong"] /\ ws_fwd = Retag("rps", Msg("rps_game", "countdown", 0))
    /\ ws_inbox # <<>> /\ queues[ws_queue] # <<>>


\* sequence `a` is `b` or the beginning of `b`
Prefix(a, b) == Len(a) <= Len(b) /\ \A i \in 1..Len(a) : a[i] = b[i]

\* the step processes a task of the source
Processed(source) == ws_handled'[source] # ws_handled[source]

\* C31: within one /ws/rps connection, events are forwarded in the order
\* they entered the connection's queue and replies are sent in the order the
\* client messages arrived, and the cancelled await of a race drops nothing:
\* a pass that processes a source takes exactly its oldest element and
\* answers it, a pass that does not leaves the source as it is, and the
\* numbers of the forwarded events only grow.
C31_OrderKept ==
    [][ws_state = "open" =>
          /\ IF Processed("receive")
             THEN /\ ws_inbox # <<>> /\ ws_inbox' = Tail(ws_inbox)
                  /\ ws_reply' = MergeReply(Head(ws_inbox))
             ELSE Prefix(ws_inbox, ws_inbox') /\ ws_reply' = ws_reply
          /\ IF Processed("broadcast")
             THEN /\ queues[ws_queue] # <<>>
                  /\ queues'[ws_queue] = Tail(queues[ws_queue])
                  /\ ws_fwd' = Retag("rps", Head(queues[ws_queue]))
                  /\ ws_fwd'.data > ws_fwd.data
             ELSE Prefix(queues[ws_queue], queues'[ws_queue]) /\ ws_fwd' = ws_fwd]_vars

\* the second event was forwarded and the second of two different client
\* messages answered, in a pass that processed only one of the sources
\* while the other had something waiting
C31_Witness ==
    /\ ws_state = "open" /\ ws_fwd.data = 2 /\ ws_sends = 1
    /\ ws_reply = WsError("type") /\ ws_inbox = <<"ping">>
    /\ queues[ws_queue] # <<>>


---------------------------------------------------------------------------
(* The detection loops: failures, exceptions and stops *)

\* camera.read() of the loop of thread t has failed while the session was
\* running: the loop has left its while statement by `break`
ReadFailed(t) ==
    /\ t \in DetThreadIds /\ det_threads[t].pc = "finally" /\ ~det_threads[t].ret
    /\ is_detecting

\* C32: when camera.read() fails in the loop of a running session that no
\* client stops, the service stops itself: it becomes idle, the capture is
\* released and the stopped event is published.
C32_SelfStopOnReadFailure ==
    \A t \in 1..MaxDetThreads :
        ReadFailed(t)
            ~> (/\ ~is_detecting /\ camera = "None" /\ ~cam_open
                /\ last_pub = DetMsg("stopped"))


\* the step is a step of detection thread t
StepOf(t) == det_threads'[t] # det_threads[t]

\* C33: an exception raised inside the loop of a detection service is
\* caught and published as an error event, the cleanup runs and the
\* exception does not leave the thread: a thread in which an exception was
\* raised does not go on without the error event, never ends by an
\* exception, and leaves the service idle with the capture released.
C33_ExceptionsCaught ==
    [][\A t \in DetThreadIds :
          /\ (StepOf(t) /\ det_threads[t].pc = "except")
                 => last_pub' = DetMsg("error")
          /\ (StepOf(t) /\ det_threads'[t].failed) => det_threads'[t].pc = "except"
          /\ (StepOf(t) /\ ~DetAlive(t)')
                 => /\ det_threads'[t].pc = "done"
                    /\ ~is_detecting' /\ camera' = "None" /\ ~cam_open']_vars


\* the positions of the loop at which it calls a method of self.camera
CameraUses == {"is_opened", "read", "finally_release"}

\* C34: a stop called while the loop is inside an iteration is safe: the
\* loop never calls a method of a capture that stop has set to None, never
\* reads from a capture that stop has released, and raises nothing there.
C34_StopDuringIteration ==
    [][\A t \in DetThreadIds :
          (StepOf(t) /\ det_threads[t].pc \in CameraUses)
              => /\ camera # "None"
                 /\ det_threads[t].pc = "read" => cam_open
                 /\ det_threads'[t].pc \notin {"except", "raised"}
                 /\ ~det_threads'[t].failed]_vars


\* the challenges that are completed
Completed == {i \in 1..Len(challenges) : challenges[i].completed}

---------------------------------------------------------------------------
(* /ws/drawing: the session of a connection that ended *)

\* C36: once a connection to /ws/drawing has ended, by a close message, a
\* disconnect or any other exception in the handler, no drawing session
\* that a connection started is still running
C36_SessionEndsWithConnection == ws_state = "closed" => ~is_detecting

---------------------------------------------------------------------------
(* The tallies of the players *)

Pids(ps) == DOMAIN ps

\* the players whose score is one higher after the step
Scored == {pid \in Pids(players) \cap Pids(players') :
              players'[pid].score = players[pid].score + 1}

\* the players whose score is the same after the step
SameScore == {pid \in Pids(players) \cap Pids(players') :
                 players'[pid].score = players[pid].score}

\* the step judges a round: one more entry in round_history
Judges == Len(round_history') = Len(round_history) + 1

\* the step sets up the players of a new game
NewPlayers == \A pid \in Pids(players') : players'[pid] = RPSPlayer(pid = "ai")

\* C37: a judged round gives one point to exactly one of the two players
\* when it is won or lost and none when it is drawn, and scores change in no
\* other step of a game; the wins, losses and draws of each player add up
\* to the number of judged rounds and, with a target of 1 or more, no score
\* exceeds the target, while the game is not idle
C37_Scores ==
    /\ [](game_state # IDLE => \A pid \in Pids(players) :
             /\ players[pid].wins + players[pid].losses + players[pid].draws
                    = Len(round_history)
             /\ target_score >= 1 => players[pid].score <= target_score)
    /\ [][/\ Judges =>
               /\ Pids(players') = Pids(players)
               /\ Cardinality(Pids(players)) = 2
               /\ IF round_history'[Len(round_history')] \in {WIN, LOSE}
                  THEN Cardinality(Scored) = 1 /\ Cardinality(SameScore) = 1
                  ELSE SameScore = Pids(players)
          /\ ~Judges => SameScore = Pids(players) \/ NewPlayers]_vars

---------------------------------------------------------------------------
(* The worker threads of a service *)

\* the positions of a worker of the game service that are inside the while
\* loop of _game_loop
GameLoopPcs == {"while", "check", "new_round", "countdown", "cd_sleep", "capture", "poll",
                "result", "result_sleep", "check_after"}

\* the positions of a detection thread that are inside its while loop
DetLoopPcs == {"while", "check_camera", "is_opened", "read", "body"}

\* the worker threads of the game service that run their loop
GameWorkers == {t \in ThreadIds : threads[t].pc \in GameLoopPcs}

\* the threads of the detection service that run their loop
DetWorkers == {t \in DetThreadIds : det_threads[t].pc \in DetLoopPcs}

\* C38: at any time at most one worker thread of the game service and at
\* most one thread of a detection service (gesture, action or drawing) runs
\* its loop, whatever start and stop calls came before, also when a start
\* follows a stop whose join timed out
C38_OneWorker == Cardinality(GameWorkers) <= 1 /\ Cardinality(DetWorkers) <= 1

---------------------------------------------------------------------------
(* start_drawing_session in camera mode and the thread it has started *)

\* the step in which start_drawing_session in camera mode returns "started"
DrawingStarted ==
    /\ det_kind = "drawing" /\ loop_pc = "start_flag"
    /\ loop_pc' = "idle" /\ det_reply' = "started"

\* C39: when start_drawing_session in camera mode returns "started", the
\* session is marked running, the thread it has started is inside the
\* drawing loop and the camera it has opened is still held and open,
\* however the new thread was scheduled against the rest of start
C39_StartedHasLoop ==
    [][DrawingStarted =>
          /\ is_detecting'
          /\ det_threads'[det_thread'].pc \in DetLoopPcs
          /\ camera' = "capture" /\ cam_open']_vars

---------------------------------------------------------------------------
(* The gesture of the player and the input window of the round *)

\* the step records the gesture of the player for the round
Captures == \E t \in ThreadIds : ~threads[t].captured /\ threads'[t].captured

\* C40: the gesture that the polling loop records for the player was
\* recognised during the input window of the round that is played, never
\* during the countdown, in an earlier round or before the game
C40_GestureFromWindow ==
    [][Captures =>
          /\ players'["player1"].current_gesture = hg_current.gesture
          /\ hg_current.game = game_thread
          /\ hg_current.round = current_round
          /\ hg_current.window]_vars

=========================================================================
